---------------------------- MODULE Spec2Model ----------------------------
(***************************************************************************)
(* Client management dashboard: the statistics aggregation of              *)
(* fetchClientsWithStats (app/lib/clients-data.ts) and the view-model of   *)
(* the clients table (components/ClientsTable: filter, sort, paginate).    *)
(*                                                                         *)
(* Conventions.  A nullable field holds Null (the empty tuple) or <<v>>.   *)
(* A string is a sequence of one-character strings; characters are         *)
(* ordered by their UTF-16 code unit (Alphabet).  A date is the ISO string *)
(* YYYY-MM-DD, kept as <<y, m, d>>: equal-width fields make the string     *)
(* order the lexicographic order of the triple.                            *)
(***************************************************************************)
EXTENDS Integers, Sequences, FiniteSets, TLC

VARIABLES
    dbClients,      \* the store's clients table (rows)
    dbProjects,     \* the store's projects table (rows, in the order the store returns them)
    clients,        \* Home: the list handed to ClientsTable as its prop
    searchQuery,    \* ClientsTable state
    statusFilter,
    sortColumn,
    sortDirection,
    currentPage,
    itemsPerPage,
    error,          \* Home: the message shown when the fetch failed, or Null
    selectedIds,    \* ClientsTable state: the set of selected client ids
    isArchiving,    \* ClientsTable state
    pending,        \* handleBulkArchive: the ids of the archive request awaited, or Null
    alert,          \* the message of the last alert() shown, or Null
    dbTasks,        \* the store's tasks table (rows)
    configured,     \* lib/supabase: whether the client was created (both settings present)
    requests,       \* the insert and update requests issued to the store, oldest first
    result,         \* what the last mutation operation handed to its caller
    updatingStatus, \* ClientsTable state: the id whose status button is disabled, or Null
    statusCalls,    \* the calls of updateClientStatus the table awaits, oldest first
    csvContent,     \* the text of the last CSV file exported, or Null
    form,           \* ClientForm or ProjectForm: the values entered, or Null
    formErrors,     \* the form's errors: pairs of a field and a message
    submitting,     \* the form's values passed validation and onSubmit runs
    pageOutcome     \* what the last detail or edit page request came to, with the
                    \* store's answer to its read of the client

vars == <<dbClients, dbProjects, clients, searchQuery, statusFilter,
          sortColumn, sortDirection, currentPage, itemsPerPage, error,
          selectedIds, isArchiving, pending, alert,
          updatingStatus, statusCalls, csvContent, form, formErrors, submitting,
          dbTasks, configured, requests, result, pageOutcome>>

tableVars == <<searchQuery, statusFilter, sortColumn, sortDirection,
               currentPage, itemsPerPage>>

selectVars == <<selectedIds, isArchiving, pending, alert>>

statusVars == <<updatingStatus, statusCalls>>

formVars == <<form, formErrors, submitting>>

opVars == <<dbTasks, configured, requests, result, pageOutcome>>

(***************************************************************************)
(* Bounds                                                                  *)
(***************************************************************************)
MaxProjects == 3
MaxClients == 13

(***************************************************************************)
(* Values                                                                  *)
(***************************************************************************)
Null == << >>

Some(v) == <<v>>

\* JavaScript truthiness of a nullable number: null and 0 are falsy
TruthyNum(x) == x # Null /\ x[1] # 0

\* JavaScript truthiness of a nullable string or date: null is falsy
\* (the empty string does not occur in these columns)
TruthyVal(x) == x # Null

\* x || 0 on a nullable number
OrZero(x) == IF TruthyNum(x) THEN x[1] ELSE 0

Min2(a, b) == IF a <= b THEN a ELSE b

(***************************************************************************)
(* Strings                                                                 *)
(***************************************************************************)
\* the characters used, in increasing UTF-16 code unit order
Alphabet == <<" ", "+", ".", "1", "2", "3", "@", "A", "B", "a", "b", "c">>

CharCode(c) == CHOOSE i \in 1..Len(Alphabet) : Alphabet[i] = c

\* String.prototype.toLowerCase, per character
LowerChar(c) == CASE c = "A" -> "a" [] c = "B" -> "b" [] OTHER -> c

toLowerCase(s) == [i \in 1..Len(s) |-> LowerChar(s[i])]

\* String.prototype.includes
includes(s, q) ==
    \E i \in 0..(Len(s) - Len(q)) : SubSeq(s, i + 1, i + Len(q)) = q

\* String.prototype.trim: without the leading and trailing whitespace
trim(s) ==
    LET inked == {i \in 1..Len(s) : s[i] # " "}
        first == CHOOSE i \in inked : \A j \in inked : i <= j
        last  == CHOOSE i \in inked : \A j \in inked : j <= i
    IN  IF inked = {} THEN << >> ELSE SubSeq(s, first, last)

\* a < b on strings: lexicographic by code unit
StrLess(a, b) ==
    \E k \in 1..(Min2(Len(a), Len(b)) + 1) :
        /\ \A j \in 1..(k - 1) : a[j] = b[j]
        /\ \/ k > Len(a) /\ k <= Len(b)
           \/ k <= Len(a) /\ k <= Len(b) /\ CharCode(a[k]) < CharCode(b[k])

(***************************************************************************)
(* Dates                                                                   *)
(***************************************************************************)
\* a < b on ISO date strings (default Array.prototype.sort order)
IsoLess(a, b) ==
    \/ a[1] < b[1]
    \/ a[1] = b[1] /\ a[2] < b[2]
    \/ a[1] = b[1] /\ a[2] = b[2] /\ a[3] < b[3]

\* new Date(iso).getTime(), in days since 1970-01-01 instead of
\* milliseconds (the factor 86400000 does not fit TLC's integers and
\* changes neither order nor sign)
getTime(iso) ==
    LET y   == IF iso[2] <= 2 THEN iso[1] - 1 ELSE iso[1]
        era == y \div 400
        yoe == y - era * 400
        mp  == (iso[2] + 9) % 12
        doy == (153 * mp + 2) \div 5 + iso[3] - 1
        doe == yoe * 365 + yoe \div 4 - yoe \div 100 + doy
    IN  era * 146097 + doe - 719468

(***************************************************************************)
(* Array.prototype.sort with a comparator: a stable sort (insertion sort). *)
(* cmp[i, j] is the comparator's result on the elements at positions i and *)
(* j of the array: negative puts i first, positive puts j first, 0 keeps   *)
(* their order.  The result lists the positions in their sorted order.     *)
(***************************************************************************)
sortPositions(n, cmp) ==
    LET Insert(t, x) ==
            LET p == Cardinality({j \in 1..Len(t) : cmp[t[j], x] <= 0})
            IN  SubSeq(t, 1, p) \o <<x>> \o SubSeq(t, p + 1, Len(t))
        ins[k \in 0..n] ==
            IF k = 0 THEN << >> ELSE Insert(ins[k - 1], k)
    IN  ins[n]

(***************************************************************************)
(* fetchClientsWithStats: the per-client aggregation                       *)
(***************************************************************************)
\* currencyCounts testing p.budget !== null instead of its truthiness
currencyCounts_nonNullBudget(clientProjects) ==
    LET acc[k \in 0..Len(clientProjects)] ==
            IF k = 0 THEN << >>
            ELSE LET p    == clientProjects[k]
                     prev == acc[k - 1]
                 IN  IF TruthyVal(p.currency) /\ p.budget # Null
                     THEN IF \E i \in 1..Len(prev) : prev[i][1] = p.currency[1]
                          THEN [i \in 1..Len(prev) |->
                                   IF prev[i][1] = p.currency[1]
                                   THEN <<prev[i][1], prev[i][2] + 1>>
                                   ELSE prev[i]]
                          ELSE Append(prev, <<p.currency[1], 1>>)
                     ELSE prev
    IN  acc[Len(clientProjects)]

\* currencyCounts: an object keeps its (non-numeric) keys in insertion
\* order; kept as a sequence of <<currency, count>> entries
currencyCounts(clientProjects) ==
    LET acc[k \in 0..Len(clientProjects)] ==
            IF k = 0 THEN << >>
            ELSE LET p    == clientProjects[k]
                     prev == acc[k - 1]
                 IN  IF TruthyVal(p.currency) /\ TruthyNum(p.budget)
                     THEN IF \E i \in 1..Len(prev) : prev[i][1] = p.currency[1]
                          THEN [i \in 1..Len(prev) |->
                                   IF prev[i][1] = p.currency[1]
                                   THEN <<prev[i][1], prev[i][2] + 1>>
                                   ELSE prev[i]]
                          ELSE Append(prev, <<p.currency[1], 1>>)
                     ELSE prev
    IN  acc[Len(clientProjects)]

\* primaryCurrency sorting ascending and taking the last entry: a tie goes
\* to the currency met last
primaryCurrency_lastOfTies(clientProjects) ==
    LET entries == currencyCounts(clientProjects)
        n == Len(entries)
        byCountAsc == [i \in 1..n, j \in 1..n |-> entries[i][2] - entries[j][2]]
    IN  IF n > 0
        THEN entries[sortPositions(n, byCountAsc)[n]][1]
        ELSE "USD"

\* primaryCurrency taking the currency of the first project that has one,
\* whether or not it has a budget
primaryCurrency_firstProject(clientProjects) ==
    LET hasCurrency(p) == TruthyVal(p.currency)
        withCurrency == SelectSeq(clientProjects, hasCurrency)
    IN  IF Len(withCurrency) > 0 THEN withCurrency[1].currency[1] ELSE "USD"

\* Object.entries(currencyCounts).sort((a, b) => b[1] - a[1])[0][0], or 'USD'
primaryCurrency(clientProjects) ==
    LET entries == currencyCounts(clientProjects)
        n == Len(entries)
        byCountDesc == [i \in 1..n, j \in 1..n |-> entries[j][2] - entries[i][2]]
    IN  IF n > 0
        THEN entries[sortPositions(n, byCountDesc)[1]][1]
        ELSE "USD"

\* totalBudget without the test on the currency
totalBudget_anyCurrency(clientProjects) ==
    LET budgeted(p) == TruthyNum(p.budget)
        kept == SelectSeq(clientProjects, budgeted)
        sum[k \in 0..Len(kept)] ==
            IF k = 0 THEN 0 ELSE sum[k - 1] + OrZero(kept[k].budget)
    IN  sum[Len(kept)]

\* .filter(p.currency === primaryCurrency && p.budget).reduce(sum + (p.budget || 0), 0) || 0
totalBudget(clientProjects) ==
    LET inPrimary(p) == /\ p.currency # Null
                        /\ p.currency[1] = primaryCurrency(clientProjects)
                        /\ TruthyNum(p.budget)
        kept == SelectSeq(clientProjects, inPrimary)
        sum[k \in 0..Len(kept)] ==
            IF k = 0 THEN 0 ELSE sum[k - 1] + OrZero(kept[k].budget)
    IN  sum[Len(kept)]

\* the default comparator of Array.prototype.sort on ISO date strings
byIsoString(a, b) == IF IsoLess(a, b) THEN -1 ELSE IF IsoLess(b, a) THEN 1 ELSE 0

\* dates.sort() on an array of ISO date strings
sortIsoStrings(dates) ==
    LET n == Len(dates)
        cmp == [i \in 1..n, j \in 1..n |-> byIsoString(dates[i], dates[j])]
        order == sortPositions(n, cmp)
    IN  [k \in 1..n |-> dates[order[k]]]

\* dates: the {start, end} pairs of the projects that have either
projectDates(clientProjects) ==
    LET pair(k) == [start |-> clientProjects[k].start_date,
                    end   |-> clientProjects[k].end_date]
        all == [k \in 1..Len(clientProjects) |-> pair(k)]
        hasEither(d) == TruthyVal(d.start) \/ TruthyVal(d.end)
    IN  SelectSeq(all, hasEither)

\* earliestStart without the sort: the first start date in input order
earliestStart_unsorted(clientProjects) ==
    LET dates == projectDates(clientProjects)
        starts == [k \in 1..Len(dates) |-> dates[k].start]
        notNull(d) == d # Null
        present == SelectSeq(starts, notNull)
    IN  IF Len(dates) > 0 /\ Len(present) > 0 THEN present[1] ELSE Null

earliestStart(clientProjects) ==
    LET dates == projectDates(clientProjects)
        starts == [k \in 1..Len(dates) |-> dates[k].start]
        notNull(d) == d # Null
        present == SelectSeq(starts, notNull)
        plain == [k \in 1..Len(present) |-> present[k][1]]
        sorted == sortIsoStrings(plain)
    IN  IF Len(dates) > 0 /\ Len(sorted) > 0 THEN Some(sorted[1]) ELSE Null

latestEnd(clientProjects) ==
    LET dates == projectDates(clientProjects)
        ends == [k \in 1..Len(dates) |-> dates[k].end]
        notNull(d) == d # Null
        present == SelectSeq(ends, notNull)
        plain == [k \in 1..Len(present) |-> present[k][1]]
        sorted == sortIsoStrings(plain)
        reversed == [k \in 1..Len(sorted) |-> sorted[Len(sorted) + 1 - k]]
    IN  IF Len(dates) > 0 /\ Len(reversed) > 0 THEN Some(reversed[1]) ELSE Null

\* clientWithStats without the filter on client_id
clientWithStats_allProjects(client, projects) ==
    [projects_count   |-> Len(projects),
     total_budget     |-> totalBudget(projects),
     primary_currency |-> primaryCurrency(projects),
     earliest_start   |-> earliestStart(projects),
     latest_end       |-> latestEnd(projects)] @@ client

\* the body of clients.map(...): one ClientWithStats
clientWithStats(client, projects) ==
    LET ofClient(p) == p.client_id = client.id
        clientProjects == SelectSeq(projects, ofClient)
    IN  [projects_count   |-> Len(clientProjects),
         total_budget     |-> totalBudget(clientProjects),
         primary_currency |-> primaryCurrency(clientProjects),
         earliest_start   |-> earliestStart(clientProjects),
         latest_end       |-> latestEnd(clientProjects)] @@ client

\* from('clients').select('*').is('archived_at', null).order('created_at', desc)
selectActiveClients(rows) ==
    LET notArchived(c) == c.archived_at = Null
        kept == SelectSeq(rows, notArchived)
        n == Len(kept)
        byCreatedDesc == [i \in 1..n, j \in 1..n |->
                            getTime(kept[j].created_at) - getTime(kept[i].created_at)]
        order == sortPositions(n, byCreatedDesc)
    IN  [k \in 1..n |-> kept[order[k]]]

\* from('projects').select('*').in('client_id', clientIds).is('archived_at', null)
selectActiveProjects(rows, clientIds) ==
    LET wanted(p) == p.client_id \in clientIds /\ p.archived_at = Null
    IN  SelectSeq(rows, wanted)

\* the value fetchClientsWithStats resolves to when both reads succeed
clientsWithStats(clientRows, projectRows) ==
    LET active == selectActiveClients(clientRows)
        clientIds == {active[k].id : k \in 1..Len(active)}
        projects == selectActiveProjects(projectRows, clientIds)
    IN  IF Len(active) = 0 THEN << >>
        ELSE [k \in 1..Len(active) |-> clientWithStats(active[k], projects)]

(***************************************************************************)
(* Rows of the store                                                       *)
(***************************************************************************)
Names == << <<"b">>, <<"A">>, <<"a">>, <<"B", "a">>, <<"B">> >>

EmailUsers == << <<"b">>, <<"a">>, <<"a", "b">>, <<"b", "a">>, <<"c">> >>

DigitChars == <<"1", "2", "3">>

\* the decimal-free rendering of i in the digits 1..3, three places wide
Digits(i) == << DigitChars[((i \div 9) % 3) + 1],
                DigitChars[((i \div 3) % 3) + 1],
                DigitChars[(i % 3) + 1] >>

Cycle(s, i) == s[((i - 1) % Len(s)) + 1]

\* a row of the clients table (types.ts Client) as the client form writes
\* it: the email in lower case, the phone of digits, spaces and signs, both
\* unique; created_at does not increase with i
ClientRow(i) ==
    [id          |-> i,
     name        |-> Cycle(Names, i),
     email       |-> Cycle(EmailUsers, i) \o <<"@">> \o Digits(i),
     phone       |-> <<"+">> \o Digits(i) \o (IF i % 2 = 0 THEN <<" ", "1">> ELSE << >>),
     status      |-> IF i % 6 = 3 THEN "non_active" ELSE "active",
     website_url |-> Null,
     notes       |-> Null,
     created_at  |-> <<2024, 12 - ((i - 1) \div 2), 1>>,
     archived_at |-> Null]

Currencies == {"USD", "EUR"}

Budgets == {0, 50, 100}

Dates == {<<2024, 1, 15>>, <<2024, 3, 1>>}

Nullable(S) == {Null} \cup {Some(v) : v \in S}

\* a row of the projects table (types.ts Project)
ProjectRow(client_id, currency, budget, start_date, end_date, archived_at) ==
    [client_id   |-> client_id,
     currency    |-> currency,
     budget      |-> budget,
     start_date  |-> start_date,
     end_date    |-> end_date,
     archived_at |-> archived_at]

\* the project rows the store may hold.  For client 1: every currency with
\* every budget, no dates; no currency, with and without a budget; one
\* large budget; every pair of dates without a budget.  One project of
\* client 2 and one archived project of client 1.
ProjectRows ==
    {ProjectRow(1, Some(c), b, Null, Null, Null) :
        c \in Currencies, b \in Nullable(Budgets)}
    \cup {ProjectRow(1, Null, b, Null, Null, Null) : b \in {Null, Some(100)}}
    \cup {ProjectRow(1, Some("EUR"), Some(1000), Null, Null, Null)}
    \cup {ProjectRow(1, Some("USD"), Null, s, e, Null) :
        s \in Nullable(Dates), e \in Nullable(Dates)}
    \cup {ProjectRow(2, Some("EUR"), Some(1000), Some(<<2023, 6, 1>>),
                     Some(<<2025, 1, 1>>), Null),
          ProjectRow(1, Some("EUR"), Some(1000), Some(<<2023, 6, 1>>),
                     Some(<<2025, 1, 1>>), Some(<<2024, 6, 1>>))}

(***************************************************************************)
(* Home (app/page.tsx): fetch the list and hand it to the table            *)
(***************************************************************************)
TableInit ==
    /\ searchQuery = << >>
    /\ statusFilter = "active"
    /\ sortColumn = Null
    /\ sortDirection = "asc"
    /\ currentPage = 1
    /\ itemsPerPage = 25
    /\ selectedIds = {}
    /\ isArchiving = FALSE
    /\ pending = Null
    /\ alert = Null
    /\ updatingStatus = Null
    /\ statusCalls = << >>
    /\ csvContent = Null

\* no mutation operation and no page request has run yet
NoOperationYet ==
    /\ requests = << >>
    /\ result = [kind |-> "none"]
    /\ pageOutcome = [kind |-> "none"]
    /\ form = Null
    /\ formErrors = {}
    /\ submitting = FALSE

\* the message of the TypeError that supabase.from(...) raises when the
\* module's supabase is null
NullHandleMessage == "Cannot read properties of null (reading 'from')"

Home ==
    /\ IF ~configured
       THEN /\ clients' = << >>
            /\ error' = Some(NullHandleMessage)
       ELSE /\ clients' = clientsWithStats(dbClients, dbProjects)
            /\ error' = Null
    /\ UNCHANGED <<dbClients, dbProjects, tableVars, selectVars, statusVars, csvContent, formVars, opVars>>

HomeFetchFailed ==
    /\ configured
    /\ \E message \in {"Failed to fetch clients", "Failed to fetch projects"} :
          /\ message = "Failed to fetch projects"
                => Len(selectActiveClients(dbClients)) > 0
          /\ error' = Some(message)
    /\ clients' = << >>
    /\ UNCHANGED <<dbClients, dbProjects, tableVars, selectVars, statusVars, csvContent, formVars, opVars>>

\* the store holds two clients and an archived third, and up to
\* MaxProjects project rows in any order
InitAgg ==
    /\ dbClients = <<ClientRow(1), ClientRow(2),
                     [ClientRow(3) EXCEPT !.archived_at = Some(<<2024, 6, 1>>)]>>
    /\ \E n \in 0..MaxProjects : dbProjects \in [1..n -> ProjectRows]
    /\ dbTasks = << >>
    /\ configured = TRUE
    /\ clients = << >>
    /\ error = Null
    /\ TableInit
    /\ NoOperationYet

NextAgg == Home \/ HomeFetchFailed

SpecAgg == InitAgg /\ [][NextAgg]_vars

(***************************************************************************)
(* ClientsTable: the derived collections                                   *)
(***************************************************************************)
\* passesFilter without lower-casing the query
passesFilter_rawQuery(client) ==
    IF statusFilter # "all" /\ client.status # statusFilter
    THEN FALSE
    ELSE IF searchQuery # << >>
         THEN LET matchesName  == includes(toLowerCase(client.name), searchQuery)
                  matchesEmail == includes(toLowerCase(client.email), searchQuery)
                  matchesPhone == includes(toLowerCase(client.phone), searchQuery)
              IN  ~(~matchesName /\ ~matchesEmail /\ ~matchesPhone)
         ELSE TRUE

\* the predicate of clients.filter(...) in filteredClients
passesFilter(client) ==
    IF statusFilter # "all" /\ client.status # statusFilter
    THEN FALSE
    ELSE IF searchQuery # << >>
         THEN LET query == toLowerCase(searchQuery)
                  matchesName  == includes(toLowerCase(client.name), query)
                  matchesEmail == includes(toLowerCase(client.email), query)
                  matchesPhone == includes(toLowerCase(client.phone), query)
              IN  ~(~matchesName /\ ~matchesEmail /\ ~matchesPhone)
         ELSE TRUE

filteredClients == SelectSeq(clients, passesFilter)

\* the sort key of a date column: the instant, or 0 for a missing date
dateOrZero(d) == IF TruthyVal(d) THEN getTime(d[1]) ELSE 0

\* aValue < bValue for the keys the switch assigns under column
valueLess(column, a, b) ==
    CASE column = "name"  -> StrLess(toLowerCase(a.name), toLowerCase(b.name))
      [] column = "status" -> a.status = "active" /\ b.status = "non_active"
      [] column = "email" -> StrLess(toLowerCase(a.email), toLowerCase(b.email))
      [] column = "phone" -> StrLess(a.phone, b.phone)
      [] column = "projects_count" -> a.projects_count < b.projects_count
      [] column = "total_budget" -> a.total_budget < b.total_budget
      [] column = "created_at" -> getTime(a.created_at) < getTime(b.created_at)
      [] column = "earliest_start" ->
            dateOrZero(a.earliest_start) < dateOrZero(b.earliest_start)
      [] column = "latest_end" ->
            dateOrZero(a.latest_end) < dateOrZero(b.latest_end)
      [] OTHER -> FALSE

\* the comparator handed to sort
compareClients(a, b) ==
    IF valueLess(sortColumn[1], a, b)
    THEN (IF sortDirection = "asc" THEN -1 ELSE 1)
    ELSE IF valueLess(sortColumn[1], b, a)
         THEN (IF sortDirection = "asc" THEN 1 ELSE -1)
         ELSE 0

\* sortedClients sorting ascending and reversing the result for a
\* descending sort: equal keys change places
sortedClients_reversedForDesc ==
    IF sortColumn = Null THEN filteredClients
    ELSE LET n == Len(filteredClients)
             less(i, j) == valueLess(sortColumn[1], filteredClients[i],
                                     filteredClients[j])
             cmp == [i \in 1..n, j \in 1..n |->
                        IF less(i, j) THEN -1 ELSE IF less(j, i) THEN 1 ELSE 0]
             order == sortPositions(n, cmp)
         IN  IF sortDirection = "asc"
             THEN [k \in 1..n |-> filteredClients[order[k]]]
             ELSE [k \in 1..n |-> filteredClients[order[n + 1 - k]]]

sortedClients ==
    IF sortColumn = Null THEN filteredClients
    ELSE LET n == Len(filteredClients)
             cmp == [i \in 1..n, j \in 1..n |->
                        compareClients(filteredClients[i], filteredClients[j])]
             order == sortPositions(n, cmp)
         IN  [k \in 1..n |-> filteredClients[order[k]]]

\* Array.prototype.slice(from, to) for 0 <= from <= to
slice(s, from, to) == SubSeq(s, from + 1, Min2(to, Len(s)))

\* paginatedClients taking currentPage as a 0-based page number
paginatedClients_zeroBased ==
    LET startIndex == currentPage * itemsPerPage
        endIndex == startIndex + itemsPerPage
    IN  slice(sortedClients, startIndex, endIndex)

paginatedClients ==
    LET startIndex == (currentPage - 1) * itemsPerPage
        endIndex == startIndex + itemsPerPage
    IN  slice(sortedClients, startIndex, endIndex)

\* Math.ceil(sortedClients.length / itemsPerPage)
totalPages == (Len(sortedClients) + itemsPerPage - 1) \div itemsPerPage

(***************************************************************************)
(* ClientsTable: the handlers                                              *)
(***************************************************************************)
SortColumns == {"name", "status", "email", "phone", "projects_count",
                "total_budget", "created_at", "earliest_start", "latest_end"}

ItemsPerPageOptions == {10, 25, 50, 100}

SearchQueries == {<< >>, <<"a">>, <<"B">>, <<"c">>, <<"3", " ">>}

\* the statistics of the i-th list entry, as an aggregation can yield them
StatsRow(i) ==
    LET count == i % 3
    IN  [projects_count   |-> count,
         total_budget     |-> IF count = 0 THEN 0
                              ELSE Cycle(<<0, 100, 50, 150>>, i),
         primary_currency |-> IF count > 0 /\ i % 4 = 0 THEN "EUR" ELSE "USD",
         earliest_start   |-> IF count = 0 THEN Null
                              ELSE Cycle(<<Null, Some(<<1969, 12, 31>>),
                                           Some(<<2024, 1, 15>>),
                                           Some(<<1970, 1, 1>>),
                                           Some(<<2024, 3, 1>>)>>, i),
         latest_end       |-> IF count = 0 THEN Null
                              ELSE Cycle(<<Some(<<2024, 3, 1>>), Null,
                                           Some(<<1969, 12, 31>>),
                                           Some(<<2025, 1, 1>>)>>, i)]

\* the lists Home can hand to the table: newest first
ClientLists ==
    {[k \in 1..n |-> StatsRow(k) @@ ClientRow(k)] : n \in 0..MaxClients}

\* the search input's onChange
onSearchChange ==
    /\ \E value \in SearchQueries : searchQuery' = value
    /\ currentPage' = 1
    /\ UNCHANGED <<selectVars, statusVars, csvContent, formVars, opVars, dbClients, dbProjects, clients, error, statusFilter,
                   sortColumn, sortDirection, itemsPerPage>>

\* the status select's onChange
onStatusFilterChange ==
    /\ \E value \in {"all", "active", "non_active"} : statusFilter' = value
    /\ currentPage' = 1
    /\ UNCHANGED <<selectVars, statusVars, csvContent, formVars, opVars, dbClients, dbProjects, clients, error, searchQuery,
                   sortColumn, sortDirection, itemsPerPage>>

handleSort ==
    /\ \E column \in SortColumns :
          IF sortColumn = Some(column)
          THEN /\ sortDirection' = (IF sortDirection = "asc" THEN "desc" ELSE "asc")
               /\ UNCHANGED sortColumn
          ELSE /\ sortColumn' = Some(column)
               /\ sortDirection' = "asc"
    /\ currentPage' = 1
    /\ UNCHANGED <<selectVars, statusVars, csvContent, formVars, opVars, dbClients, dbProjects, clients, error, searchQuery,
                   statusFilter, itemsPerPage>>

\* handlePageChange(currentPage - 1), from the Previous button
handlePagePrevious ==
    /\ ~(currentPage = 1)
    /\ currentPage' = currentPage - 1
    /\ UNCHANGED <<selectVars, statusVars, csvContent, formVars, opVars, dbClients, dbProjects, clients, error, searchQuery,
                   statusFilter, sortColumn, sortDirection, itemsPerPage>>

\* handlePageChange(currentPage + 1), from the Next button
handlePageNext ==
    /\ ~(currentPage >= totalPages)
    /\ currentPage' = currentPage + 1
    /\ UNCHANGED <<selectVars, statusVars, csvContent, formVars, opVars, dbClients, dbProjects, clients, error, searchQuery,
                   statusFilter, sortColumn, sortDirection, itemsPerPage>>

\* handleItemsPerPageChange without the reset of the page
handleItemsPerPageChange_keepsPage ==
    /\ \E newItemsPerPage \in ItemsPerPageOptions : itemsPerPage' = newItemsPerPage
    /\ UNCHANGED <<selectVars, statusVars, csvContent, formVars, opVars, dbClients, dbProjects, clients, error,
                   searchQuery, statusFilter, sortColumn, sortDirection,
                   currentPage>>

handleItemsPerPageChange ==
    /\ \E newItemsPerPage \in ItemsPerPageOptions : itemsPerPage' = newItemsPerPage
    /\ currentPage' = 1
    /\ UNCHANGED <<selectVars, statusVars, csvContent, formVars, opVars, dbClients, dbProjects, clients, error, searchQuery,
                   statusFilter, sortColumn, sortDirection>>

\* the component renders again with a new clients prop; its state is kept
Rerender ==
    /\ \E list \in ClientLists : clients' = list
    /\ UNCHANGED <<dbClients, dbProjects, error, tableVars, selectVars, statusVars, csvContent, formVars, opVars>>

InitTable ==
    /\ dbClients = << >>
    /\ dbProjects = << >>
    /\ dbTasks = << >>
    /\ configured = TRUE
    /\ clients \in ClientLists
    /\ error = Null
    /\ TableInit
    /\ NoOperationYet

NextTable ==
    \/ onSearchChange
    \/ onStatusFilterChange
    \/ handleSort
    \/ handlePagePrevious
    \/ handlePageNext
    \/ handleItemsPerPageChange
    \/ Rerender

SpecTable == InitTable /\ [][NextTable]_vars

(***************************************************************************)
(* ClientsTable: the selection                                             *)
(***************************************************************************)
MaxListed == 4

\* the ids of the rows the table renders
visibleIds == {paginatedClients[k].id : k \in 1..Len(paginatedClients)}

\* the header checkbox is checked
allSelected ==
    Len(paginatedClients) > 0 /\ Cardinality(selectedIds) = Len(paginatedClients)

\* the header checkbox's onChange
handleSelectAll ==
    /\ IF Cardinality(selectedIds) = Len(paginatedClients)
       THEN selectedIds' = {}
       ELSE selectedIds' = visibleIds
    /\ UNCHANGED <<isArchiving, pending, alert, opVars, tableVars, statusVars, csvContent, formVars,
                   dbClients, dbProjects, clients, error>>

\* the onChange of the checkbox of a rendered row
handleSelectClient ==
    /\ \E clientId \in visibleIds :
          IF clientId \in selectedIds
          THEN selectedIds' = selectedIds \ {clientId}
          ELSE selectedIds' = selectedIds \cup {clientId}
    /\ UNCHANGED <<isArchiving, pending, alert, opVars, tableVars, statusVars, csvContent, formVars,
                   dbClients, dbProjects, clients, error>>

\* the table over a list of MaxListed clients, all on one page
InitSelect ==
    /\ dbClients = << >>
    /\ dbProjects = << >>
    /\ dbTasks = << >>
    /\ configured = TRUE
    /\ clients = [k \in 1..MaxListed |-> StatsRow(k) @@ ClientRow(k)]
    /\ error = Null
    /\ TableInit
    /\ NoOperationYet

NextSelect ==
    \/ onSearchChange
    \/ onStatusFilterChange
    \/ handleSort
    \/ handleItemsPerPageChange
    \/ handleSelectAll
    \/ handleSelectClient

SpecSelect == InitSelect /\ [][NextSelect]_vars

(***************************************************************************)
(* ClientsTable: the CSV export (exportToCSV)                              *)
(***************************************************************************)
MaxExported == 2

Quote == "\""

Comma == ","

LineBreak == "\n"

\* a string literal of the code as its characters
HeaderCells ==
    << <<"N", "a", "m", "e">>, <<"S", "t", "a", "t", "u", "s">>,
       <<"E", "m", "a", "i", "l">>, <<"P", "h", "o", "n", "e">>,
       <<"W", "e", "b", "s", "i", "t", "e">>,
       <<"P", "r", "o", "j", "e", "c", "t", "s">>,
       <<"T", "o", "t", "a", "l", " ", "B", "u", "d", "g", "e", "t">>,
       <<"C", "u", "r", "r", "e", "n", "c", "y">>,
       <<"C", "r", "e", "a", "t", "e", "d">>,
       <<"E", "a", "r", "l", "i", "e", "s", "t", " ", "P", "r", "o", "j", "e", "c", "t">>,
       <<"L", "a", "t", "e", "s", "t", " ", "P", "r", "o", "j", "e", "c", "t">>,
       <<"N", "o", "t", "e", "s">> >>

\* the characters of a status and of a currency code
EnumText(v) ==
    CASE v = "active" -> <<"a", "c", "t", "i", "v", "e">>
      [] v = "non_active" -> <<"n", "o", "n", "_", "a", "c", "t", "i", "v", "e">>
      [] v = "USD" -> <<"U", "S", "D">>
      [] v = "EUR" -> <<"E", "U", "R">>

DecimalDigit(d) == <<"0", "1", "2", "3", "4", "5", "6", "7", "8", "9">>[d + 1]

\* Number.prototype.toString of a natural number
RECURSIVE NumberText(_)
NumberText(n) ==
    IF n < 10 THEN <<DecimalDigit(n)>>
    ELSE NumberText(n \div 10) \o <<DecimalDigit(n % 10)>>

\* a number in at least width digits
Padded(n, width) ==
    LET text == NumberText(n)
    IN  [k \in 1..(width - Len(text)) |-> "0"] \o text

\* toISOString().split('T')[0] of a date
IsoDate(date) ==
    Padded(date[1], 4) \o <<"-">> \o Padded(date[2], 2) \o <<"-">>
        \o Padded(date[3], 2)

\* formatDateForCSV of a date that may be missing
formatDateForCSV(dateString) ==
    IF dateString = Null THEN << >> ELSE IsoDate(dateString[1])

\* value || '' on a text that may be missing
textOrEmpty(value) == IF value = Null THEN << >> ELSE value[1]

\* the array of cells exportToCSV builds for a client
csvRow(client) ==
    << client.name,
       EnumText(client.status),
       client.email,
       client.phone,
       textOrEmpty(client.website_url),
       NumberText(client.projects_count),
       NumberText(client.total_budget),
       EnumText(client.primary_currency),
       formatDateForCSV(Some(client.created_at)),
       formatDateForCSV(client.earliest_start),
       formatDateForCSV(client.latest_end),
       textOrEmpty(client.notes) >>

\* Array.prototype.join
RECURSIVE join(_, _)
join(parts, separator) ==
    IF Len(parts) = 0 THEN << >>
    ELSE IF Len(parts) = 1 THEN parts[1]
    ELSE parts[1] \o separator \o join(Tail(parts), separator)

\* String(cell).replace(/"/g, '""')
RECURSIVE doubleQuotes(_)
doubleQuotes(cell) ==
    IF Len(cell) = 0 THEN << >>
    ELSE (IF Head(cell) = Quote THEN <<Quote, Quote>> ELSE <<Head(cell)>>)
            \o doubleQuotes(Tail(cell))

\* the cell with only its first quote doubled: replace('"', '""')
quotedCell_firstQuoteOnly(cell) ==
    LET quotes == {i \in 1..Len(cell) : cell[i] = Quote}
        first == CHOOSE i \in quotes : \A j \in quotes : i <= j
    IN  IF quotes = {} THEN <<Quote>> \o cell \o <<Quote>>
        ELSE <<Quote>> \o SubSeq(cell, 1, first) \o <<Quote>>
                \o SubSeq(cell, first + 1, Len(cell)) \o <<Quote>>

\* `"${String(cell).replace(/"/g, '""')}"`
quotedCell(cell) == <<Quote>> \o doubleQuotes(cell) \o <<Quote>>

\* csvContent of exportToCSV(list)
exportToCSV(list) ==
    LET rows == [k \in 1..Len(list) |-> csvRow(list[k])]
        lines == [k \in 1..Len(rows) |->
                    join([c \in 1..Len(rows[k]) |-> quotedCell(rows[k][c])],
                         <<Comma>>)]
    IN  join(<<join(HeaderCells, <<Comma>>)>> \o lines, <<LineBreak>>)

\* the Export button's onClick: the whole sorted list, not the page shown
handleExportCSV ==
    /\ csvContent' = Some(exportToCSV(sortedClients))
    /\ UNCHANGED <<dbClients, dbProjects, clients, error, tableVars, selectVars,
                   updatingStatus, statusCalls, formVars, opVars>>

\* the notes and the website of the clients exported: missing, empty, with
\* quotes, with a comma and a line break
ExportTexts ==
    {Null, Some(<< >>), Some(<<"a", Quote, "b">>), Some(<<Quote, Quote>>),
     Some(<<Quote>>), Some(<<"a", Comma, LineBreak, "b">>)}

\* the table over a list of up to MaxExported clients with such texts
InitExport ==
    /\ dbClients = << >>
    /\ dbProjects = << >>
    /\ dbTasks = << >>
    /\ configured = TRUE
    /\ \E n \in 0..MaxExported :
          \E texts \in [1..n -> ExportTexts] :
             clients = [k \in 1..n |->
                          [notes |-> texts[k],
                           website_url |-> IF k % 2 = 0 THEN Null
                                           ELSE Some(<<"a", ".", "b">>)]
                             @@ StatsRow(k + 3) @@ ClientRow(k + 3)]
    /\ error = Null
    /\ TableInit
    /\ NoOperationYet

NextExport ==
    \/ onStatusFilterChange
    \/ handleExportCSV

SpecExport == InitExport /\ [][NextExport]_vars

(***************************************************************************)
(* Mutation operations: what the forms hand over and what is sent          *)
(***************************************************************************)
\* CreateClientData as a caller can pass it: plain; in need of trimming and
\* lower-casing; with blanks around the email and the website; empty
ClientInputs ==
    {[name |-> <<"a">>, email |-> <<"a", "@", "b", ".", "a", "b">>,
      phone |-> <<"+", "1">>, website_url |-> Null,
      status |-> "active", notes |-> Null],
     [name |-> <<" ", "B", " ">>, email |-> <<"A", "@", "b", ".", "a", "b">>,
      phone |-> <<" ", "1", "2", " ">>, website_url |-> Some(<<" ">>),
      status |-> "non_active", notes |-> Some(<<" ", "a", " ">>)],
     [name |-> <<"c">>, email |-> <<" ", "c", "@", "b", ".", "a", "b", " ">>,
      phone |-> <<"+", "1">>, website_url |-> Some(<<" ", "a", ".", "b", " ">>),
      status |-> "active", notes |-> Some(<< >>)],
     [name |-> << >>, email |-> <<"a", "b">>,
      phone |-> <<"a", "b", "c">>, website_url |-> Some(<< >>),
      status |-> "active", notes |-> Null]}

\* CreateProjectData as a caller can pass it: plain; with blanks; with a
\* budget of 0 and an end before the start
ProjectInputs ==
    {[client_id |-> 1, name |-> <<"a">>, description |-> Null,
      budget |-> Some(100), currency |-> "USD", status |-> "non_completed",
      start_date |-> Some(<<2024, 1, 15>>), end_date |-> Some(<<2024, 3, 1>>)],
     [client_id |-> 1, name |-> <<" ", "B", " ">>, description |-> Some(<<" ">>),
      budget |-> Null, currency |-> "EUR", status |-> "completed",
      start_date |-> Some(<< >>), end_date |-> Null],
     [client_id |-> 1, name |-> << >>, description |-> Some(<<" ", "a", " ">>),
      budget |-> Some(0), currency |-> "USD", status |-> "non_completed",
      start_date |-> Some(<<2024, 3, 1>>), end_date |-> Some(<<2024, 1, 15>>)]}

\* value?.trim() || null on an optional string
trimOrNull(value) ==
    IF value = Null THEN Null
    ELSE IF trim(value[1]) = << >> THEN Null ELSE Some(trim(value[1]))

\* value || null on an optional string or date
valueOrNull(value) ==
    IF value = Null THEN Null
    ELSE IF value[1] = << >> THEN Null ELSE value

\* data.budget || null
budgetOrNull(budget) == IF TruthyNum(budget) THEN budget ELSE Null

\* the object handed to insert and update by createClient and updateClient
\* with the email trimmed only
clientRowSent_emailAsTyped(data) ==
    [name        |-> trim(data.name),
     email       |-> trim(data.email),
     phone       |-> trim(data.phone),
     website_url |-> trimOrNull(data.website_url),
     status      |-> data.status,
     notes       |-> trimOrNull(data.notes)]

\* the object handed to insert and update by createClient and updateClient
clientRowSent(data) ==
    [name        |-> trim(data.name),
     email       |-> toLowerCase(trim(data.email)),
     phone       |-> trim(data.phone),
     website_url |-> trimOrNull(data.website_url),
     status      |-> data.status,
     notes       |-> trimOrNull(data.notes)]

\* the fields createProject and updateProject both send
projectFieldsSent(data) ==
    [name        |-> trim(data.name),
     description |-> trimOrNull(data.description),
     budget      |-> budgetOrNull(data.budget),
     currency    |-> Some(data.currency),
     status      |-> data.status,
     start_date  |-> valueOrNull(data.start_date),
     end_date    |-> valueOrNull(data.end_date)]

(***************************************************************************)
(* The forms' validation (zod schemas)                                     *)
(***************************************************************************)
Letters == {"A", "B", "a", "b", "c"}

DigitSet == {"0", "1", "2", "3", "5"}

\* z.string().email(): one "@"; a local part of letters, digits, "+" and
\* ".", neither starting nor ending with "." ; no ".." ; a domain of
\* dot-separated labels that ends in a label of two or more letters
isEmail(s) ==
    LET ats == {i \in 1..Len(s) : s[i] = "@"}
        at == CHOOSE i \in ats : TRUE
        dots == {i \in (at + 1)..Len(s) : s[i] = "."}
        lastDot == CHOOSE i \in dots : \A j \in dots : j <= i
    IN  /\ Cardinality(ats) = 1
        /\ at > 1
        /\ \A i \in 1..(at - 1) : s[i] \in Letters \cup DigitSet \cup {"+", "."}
        /\ s[1] # "."
        /\ s[at - 1] # "."
        /\ \A i \in 1..(Len(s) - 1) : ~(s[i] = "." /\ s[i + 1] = ".")
        /\ dots # {}
        /\ s[at + 1] \in Letters \cup DigitSet
        /\ \A i \in (at + 1)..lastDot : s[i] \in Letters \cup DigitSet \cup {"."}
        /\ Len(s) - lastDot >= 2
        /\ \A i \in (lastDot + 1)..Len(s) : s[i] \in Letters

\* the class [\d\s\-\+\(\)] on the characters in use
PhoneClass == DigitSet \cup {" ", "-", "+", "(", ")"}

\* the pattern without its anchors: /[\d\s\-\+\(\)]+/
isPhoneShape_unanchored(s) ==
    \E i \in 1..Len(s) : s[i] \in PhoneClass

\* /^[\d\s\-\+\(\)]+$/
isPhoneShape(s) ==
    /\ Len(s) >= 1
    /\ \A i \in 1..Len(s) : s[i] \in PhoneClass

\* new URL("https://" + val) does not throw: the parser drops trailing
\* blanks and rejects an empty host and a blank inside the host
parsesAsUrl(val) ==
    LET inked == {i \in 1..Len(val) : val[i] # " "}
    IN  /\ inked # {}
        /\ \A i \in 1..Len(val) :
              val[i] = " " => \A j \in inked : j < i

\* the refinement of website_url
websiteAccepted(value) ==
    \/ value = Null
    \/ value[1] = << >>
    \/ trim(value[1]) = << >>
    \/ parsesAsUrl(value[1])

\* clientSchema accepts the form data
clientSchemaAccepts(data) ==
    /\ Len(data.name) >= 1 /\ Len(data.name) <= 255
    /\ Len(data.email) >= 1 /\ isEmail(data.email) /\ Len(data.email) <= 255
    /\ Len(data.phone) >= 1 /\ Len(data.phone) <= 50 /\ isPhoneShape(data.phone)
    /\ websiteAccepted(data.website_url)
    /\ data.status \in {"active", "non_active"}

\* one issue of a schema: none when the check passes
issue(passes, field, message) ==
    IF passes THEN {} ELSE {<<field, message>>}

\* the issues clientSchema raises for the form data, each with its field
clientSchemaErrors(data) ==
    issue(Len(data.name) >= 1, "name", "Name is required")
    \cup issue(Len(data.name) <= 255, "name",
               "Name must be less than 255 characters")
    \cup issue(Len(data.email) >= 1, "email", "Email is required")
    \cup issue(isEmail(data.email), "email", "Please enter a valid email address")
    \cup issue(Len(data.email) <= 255, "email",
               "Email must be less than 255 characters")
    \cup issue(Len(data.phone) >= 1, "phone", "Phone is required")
    \cup issue(Len(data.phone) <= 50, "phone",
               "Phone must be less than 50 characters")
    \cup issue(isPhoneShape(data.phone), "phone",
               "Please enter a valid phone number (digits, spaces, hyphens, plus, parentheses allowed)")
    \cup issue(websiteAccepted(data.website_url), "website_url",
               "Please enter a valid URL (e.g., example.com or https://example.com)")

\* data.start_date && data.end_date
bothDatesGiven(data) ==
    /\ data.start_date # Null /\ data.start_date[1] # << >>
    /\ data.end_date # Null /\ data.end_date[1] # << >>

EndDateMessage == "End date must be after or equal to start date"

\* the issues with the refinement comparing the dates with > instead of >=
projectSchemaErrors_strictlyAfter(data) ==
    issue(Len(data.name) >= 1, "name", "Name is required")
    \cup issue(Len(data.name) <= 255, "name",
               "Name must be less than 255 characters")
    \cup issue(data.budget = Null \/ data.budget[1] > 0, "budget",
               "Budget must be a positive number")
    \cup issue(bothDatesGiven(data) =>
                  getTime(data.end_date[1]) > getTime(data.start_date[1]),
               "end_date", EndDateMessage)

\* the issues projectSchema raises for the form data, each with the field
\* it is attached to
projectSchemaErrors(data) ==
    issue(Len(data.name) >= 1, "name", "Name is required")
    \cup issue(Len(data.name) <= 255, "name",
               "Name must be less than 255 characters")
    \cup issue(data.budget = Null \/ data.budget[1] > 0, "budget",
               "Budget must be a positive number")
    \cup issue(bothDatesGiven(data) =>
                  getTime(data.end_date[1]) >= getTime(data.start_date[1]),
               "end_date", EndDateMessage)

\* projectSchema accepts the form data
projectSchemaAccepts(data) ==
    /\ Len(data.name) >= 1 /\ Len(data.name) <= 255
    /\ data.budget = Null \/ data.budget[1] > 0
    /\ data.currency \in Currencies
    /\ data.status \in {"completed", "non_completed"}
    /\ (/\ data.start_date # Null /\ data.start_date[1] # << >>
        /\ data.end_date # Null /\ data.end_date[1] # << >>)
          => getTime(data.end_date[1]) >= getTime(data.start_date[1])

(***************************************************************************)
(* The store: what it answers to a request                                 *)
(***************************************************************************)
MaxRequests == 2

\* a message is a sequence of pieces of text, so that includes() applies
EmailConflict ==
    [code |-> "23505",
     message |-> <<"duplicate key value violates unique constraint ",
                   "clients_", "email", "_key">>]

PhoneConflict ==
    [code |-> "23505",
     message |-> <<"duplicate key value violates unique constraint ",
                   "clients_", "phone", "_key">>]

\* .single() when the request matched no row
NoRowsError ==
    [code |-> "PGRST116",
     message |-> <<"JSON object requested, multiple (or no) rows returned">>]

\* a failure of the store or of the way to it
StoreFailure == [code |-> "08006", message |-> <<"connection failure">>]

\* the uniqueness errors the store raises for a client row with this email
\* and phone: they are unique among the other non-archived clients
conflicts(rows, row, ownId) ==
    LET others == {k \in 1..Len(rows) :
                      rows[k].id # ownId /\ rows[k].archived_at = Null}
    IN  {EmailConflict : k \in {j \in others : rows[j].email = row.email}}
        \cup {PhoneConflict : k \in {j \in others : rows[j].phone = row.phone}}

\* the errors an insert of row into clients can come back with; none when
\* the set is empty
clientInsertErrors(rows, row) == conflicts(rows, row, 0)

\* the errors an update of the client clientId can come back with
clientUpdateErrors(rows, clientId, row) ==
    IF \E k \in 1..Len(rows) : rows[k].id = clientId
    THEN conflicts(rows, row, clientId)
    ELSE {NoRowsError}

\* new Date().toISOString() at the time of an archive
nowStamp == <<2025, 1, 1>>

\* an update that writes null to archived_at unless the fields name it
updatedRows_restoring(rows, ids, fields) ==
    [k \in 1..Len(rows) |->
        IF rows[k].id \in ids
        THEN fields @@ [rows[k] EXCEPT !.archived_at = Null]
        ELSE rows[k]]

\* the rows after update(fields).eq('id', id) or .in('id', ids)
updatedRows(rows, ids, fields) ==
    [k \in 1..Len(rows) |->
        IF rows[k].id \in ids THEN fields @@ rows[k] ELSE rows[k]]

\* the rows after insert(row): the store assigns the id and the timestamps
insertedRows(rows, row) ==
    Append(rows, [id |-> Len(rows) + 1, created_at |-> nowStamp,
                  archived_at |-> Null] @@ row)

(***************************************************************************)
(* Mutation operations: what they hand to the caller                       *)
(***************************************************************************)
NotConfiguredMessage == <<"Supabase is not configured.">>

succeeded(id) ==
    [kind |-> "returned", success |-> TRUE, error |-> Null, id |-> Some(id)]

failed(message) ==
    [kind |-> "returned", success |-> FALSE, error |-> Some(message), id |-> Null]

thrown(message) == [kind |-> "thrown", error |-> Some(message)]

resolved == [kind |-> "resolved"]

\* error.message || fallback
messageOr(storeError, fallback) ==
    IF storeError.message # << >> THEN storeError.message ELSE <<fallback>>

\* the mapping with the test for the phone left out
clientErrorMessage_emailOnly(storeError, fallback) ==
    IF storeError.code = "23505" /\ includes(storeError.message, <<"email">>)
    THEN <<"A client with this email already exists. Please use a different email.">>
    ELSE messageOr(storeError, fallback)

\* if (error) { ... } of createClient and updateClient
clientErrorMessage(storeError, fallback) ==
    IF storeError.code = "23505" /\ includes(storeError.message, <<"email">>)
    THEN <<"A client with this email already exists. Please use a different email.">>
    ELSE IF storeError.code = "23505" /\ includes(storeError.message, <<"phone">>)
         THEN <<"A client with this phone number already exists. Please use a different phone number.">>
         ELSE messageOr(storeError, fallback)

(***************************************************************************)
(* Mutation operations                                                     *)
(***************************************************************************)
\* the store took the request
NoError == [code |-> "", message |-> << >>]

\* what a request can come back with, given the errors its content raises
answers(errors) == (IF errors = {} THEN {NoError} ELSE errors) \cup {StoreFailure}

\* a request to the store with what the store answered
request(table, op, ids, row, answer) ==
    [table |-> table, op |-> op, ids |-> ids, row |-> row, answer |-> answer]

\* what a mutation operation leaves alone
uiVars == <<clients, error, tableVars, selectVars, statusVars, csvContent, formVars, pageOutcome>>

createClient(data) ==
    /\ IF ~configured
       THEN /\ result' = failed(NotConfiguredMessage)
            /\ UNCHANGED <<dbClients, requests>>
       ELSE /\ Len(requests) < MaxRequests
            /\ \E answer \in answers(clientInsertErrors(dbClients, clientRowSent(data))) :
                  /\ requests' = Append(requests,
                        request("clients", "insert", {}, clientRowSent(data), answer))
                  /\ IF answer # NoError
                     THEN /\ result' = failed(clientErrorMessage(answer,
                                                  "Failed to create client"))
                          /\ UNCHANGED dbClients
                     ELSE /\ dbClients' = insertedRows(dbClients, clientRowSent(data))
                          /\ result' = succeeded(Len(dbClients) + 1)
    /\ UNCHANGED <<dbProjects, dbTasks, configured, uiVars>>

updateClient(clientId, data) ==
    /\ IF ~configured
       THEN /\ result' = failed(NotConfiguredMessage)
            /\ UNCHANGED <<dbClients, requests>>
       ELSE /\ Len(requests) < MaxRequests
            /\ \E answer \in answers(clientUpdateErrors(dbClients, clientId,
                                                        clientRowSent(data))) :
                  /\ requests' = Append(requests,
                        request("clients", "update", {clientId}, clientRowSent(data), answer))
                  /\ IF answer # NoError
                     THEN /\ result' = failed(clientErrorMessage(answer,
                                                  "Failed to update client"))
                          /\ UNCHANGED dbClients
                     ELSE /\ dbClients' = updatedRows(dbClients, {clientId},
                                                      clientRowSent(data))
                          /\ result' = succeeded(clientId)
    /\ UNCHANGED <<dbProjects, dbTasks, configured, uiVars>>

\* the call of createProject: what it sends, what the store makes of it and
\* what it returns
createProjectCall(data) ==
    IF ~configured
    THEN /\ result' = failed(NotConfiguredMessage)
         /\ UNCHANGED <<dbProjects, requests>>
    ELSE /\ Len(requests) < MaxRequests
         /\ \E answer \in answers({}) :
               /\ requests' = Append(requests,
                 request("projects", "insert", {},
                         [client_id |-> data.client_id] @@ projectFieldsSent(data), answer))
               /\ IF answer # NoError
                  THEN /\ result' = failed(messageOr(answer, "Failed to create project"))
                       /\ UNCHANGED dbProjects
                  ELSE /\ dbProjects' = insertedRows(dbProjects,
                              [client_id |-> data.client_id] @@ projectFieldsSent(data))
                       /\ result' = succeeded(Len(dbProjects) + 1)

\* createProject without the try and catch around its body
createProject_noCatch(data) ==
    /\ IF ~configured
       THEN /\ result' = thrown(NotConfiguredMessage)
            /\ UNCHANGED <<dbProjects, requests>>
       ELSE /\ Len(requests) < MaxRequests
            /\ \E answer \in answers({}) :
                  /\ requests' = Append(requests,
                    request("projects", "insert", {},
                            [client_id |-> data.client_id] @@ projectFieldsSent(data), answer))
                  /\ IF answer # NoError
                     THEN /\ result' = failed(messageOr(answer, "Failed to create project"))
                          /\ UNCHANGED dbProjects
                     ELSE /\ dbProjects' = insertedRows(dbProjects,
                                 [client_id |-> data.client_id] @@ projectFieldsSent(data))
                          /\ result' = succeeded(Len(dbProjects) + 1)
    /\ UNCHANGED <<dbClients, dbTasks, configured, uiVars>>

createProject(data) ==
    /\ createProjectCall(data)
    /\ UNCHANGED <<dbClients, dbTasks, configured, uiVars>>

updateProject(projectId, data) ==
    /\ IF ~configured
       THEN /\ result' = failed(NotConfiguredMessage)
            /\ UNCHANGED <<dbProjects, requests>>
       ELSE /\ Len(requests) < MaxRequests
            /\ \E answer \in answers(IF \E k \in 1..Len(dbProjects) :
                                            dbProjects[k].id = projectId
                                      THEN {} ELSE {NoRowsError}) :
                  /\ requests' = Append(requests,
                        request("projects", "update", {projectId}, projectFieldsSent(data), answer))
                  /\ IF answer # NoError
                     THEN /\ result' = failed(messageOr(answer, "Failed to update project"))
                          /\ UNCHANGED dbProjects
                     ELSE /\ dbProjects' = updatedRows(dbProjects, {projectId},
                                                       projectFieldsSent(data))
                          /\ result' = succeeded(projectId)
    /\ UNCHANGED <<dbClients, dbTasks, configured, uiVars>>

\* the call with the handle used as supabase?.from(...): without a handle
\* nothing is sent and no error is seen
updateClientStatusCall_optionalHandle(clientId, status) ==
    IF ~configured
    THEN /\ result' = [kind |-> "returned", success |-> TRUE,
                      error |-> Null, id |-> Null]
         /\ UNCHANGED <<dbClients, requests>>
    ELSE /\ Len(requests) < MaxRequests
         /\ \E answer \in answers({}) :
               /\ requests' = Append(requests,
                     request("clients", "update", {clientId}, [status |-> status], answer))
               /\ IF answer # NoError
                  THEN /\ result' = failed(messageOr(answer,
                                               "Failed to update client status"))
                       /\ UNCHANGED dbClients
                  ELSE /\ dbClients' = updatedRows(dbClients, {clientId},
                                                   [status |-> status])
                       /\ result' = [kind |-> "returned", success |-> TRUE,
                                     error |-> Null, id |-> Null]

\* the call of updateClientStatus: what it sends, what the store makes of
\* it and what it returns
updateClientStatusCall(clientId, status) ==
    IF ~configured
    THEN /\ result' = failed(NotConfiguredMessage)
         /\ UNCHANGED <<dbClients, requests>>
    ELSE /\ Len(requests) < MaxRequests
         /\ \E answer \in answers({}) :
               /\ requests' = Append(requests,
                     request("clients", "update", {clientId}, [status |-> status], answer))
               /\ IF answer # NoError
                  THEN /\ result' = failed(messageOr(answer,
                                               "Failed to update client status"))
                       /\ UNCHANGED dbClients
                  ELSE /\ dbClients' = updatedRows(dbClients, {clientId},
                                                   [status |-> status])
                       /\ result' = [kind |-> "returned", success |-> TRUE,
                                     error |-> Null, id |-> Null]

updateClientStatus(clientId, status) ==
    /\ updateClientStatusCall(clientId, status)
    /\ UNCHANGED <<dbProjects, dbTasks, configured, uiVars>>

archiveClient(clientId) ==
    /\ IF ~configured
       THEN /\ result' = thrown(NotConfiguredMessage)
            /\ UNCHANGED <<dbClients, requests>>
       ELSE /\ Len(requests) < MaxRequests
            /\ \E answer \in answers({}) :
                  /\ requests' = Append(requests,
                    request("clients", "update", {clientId},
                            [archived_at |-> Some(nowStamp)], answer))
                  /\ IF answer # NoError
                     THEN /\ result' = thrown(<<"Failed to archive client: ">>
                                                  \o answer.message)
                          /\ UNCHANGED dbClients
                     ELSE /\ dbClients' = updatedRows(dbClients, {clientId},
                                                      [archived_at |-> Some(nowStamp)])
                          /\ result' = resolved
    /\ UNCHANGED <<dbProjects, dbTasks, configured, uiVars>>

archiveClients(clientIds) ==
    /\ IF clientIds = {}
       THEN /\ result' = resolved
            /\ UNCHANGED <<dbClients, requests>>
       ELSE IF ~configured
       THEN /\ result' = thrown(NotConfiguredMessage)
            /\ UNCHANGED <<dbClients, requests>>
       ELSE /\ Len(requests) < MaxRequests
            /\ \E answer \in answers({}) :
                  /\ requests' = Append(requests,
                    request("clients", "update", clientIds,
                            [archived_at |-> Some(nowStamp)], answer))
                  /\ IF answer # NoError
                     THEN /\ result' = thrown(<<"Failed to archive clients: ">>
                                                  \o answer.message)
                          /\ UNCHANGED dbClients
                     ELSE /\ dbClients' = updatedRows(dbClients, clientIds,
                                                      [archived_at |-> Some(nowStamp)])
                          /\ result' = resolved
    /\ UNCHANGED <<dbProjects, dbTasks, configured, uiVars>>

(***************************************************************************)
(* The operations called on a store of two clients (the second archived),  *)
(* two projects (the second archived) and three tasks                      *)
(***************************************************************************)
\* the ids a caller names: an active client, an archived one, the next one
\* the store will assign
TargetClientIds == {1, 2, 3}

TargetProjectIds == {1, 3}

IdSets == {{}, {1}, {1, 2}, {3}}

\* a row of the tasks table (types.ts Task)
TaskRow(id, project_id, archived_at) ==
    [id |-> id, project_id |-> project_id, name |-> <<"a">>,
     archived_at |-> archived_at]

InitOps ==
    /\ dbClients =
          <<[id |-> 1, created_at |-> <<2024, 12, 1>>, archived_at |-> Null]
               @@ clientRowSent(CHOOSE d \in ClientInputs : d.name = <<"a">>),
            [ClientRow(2) EXCEPT !.archived_at = Some(<<2024, 6, 1>>)]>>
    /\ dbProjects =
          <<[id |-> 1, created_at |-> <<2024, 12, 1>>, archived_at |-> Null,
             client_id |-> 1]
               @@ projectFieldsSent(CHOOSE d \in ProjectInputs : d.name = <<"a">>),
            [id |-> 2, name |-> <<"b">>, description |-> Null,
             status |-> "completed", created_at |-> <<2024, 12, 1>>]
               @@ ProjectRow(1, Some("EUR"), Some(1000), Some(<<2023, 6, 1>>),
                             Some(<<2025, 1, 1>>), Some(<<2024, 6, 1>>))>>
    /\ dbTasks = <<TaskRow(1, 1, Null), TaskRow(2, 1, Some(<<2024, 6, 1>>)),
                   TaskRow(3, 2, Null)>>
    /\ configured \in BOOLEAN
    /\ clients = << >>
    /\ error = Null
    /\ TableInit
    /\ NoOperationYet

NextOps ==
    \/ \E data \in ClientInputs : createClient(data)
    \/ \E clientId \in TargetClientIds, data \in ClientInputs :
          updateClient(clientId, data)
    \/ \E data \in ProjectInputs : createProject(data)
    \/ \E projectId \in TargetProjectIds, data \in ProjectInputs :
          updateProject(projectId, data)
    \/ \E clientId \in TargetClientIds, status \in {"active", "non_active"} :
          updateClientStatus(clientId, status)
    \/ \E clientId \in TargetClientIds : archiveClient(clientId)
    \/ \E clientIds \in IdSets : archiveClients(clientIds)

SpecOps == InitOps /\ [][NextOps]_vars

(***************************************************************************)
(* ClientsTable: the bulk archive of the selection                         *)
(***************************************************************************)
\* the archive button's onClick, up to the await: the button is rendered
\* for a non-empty selection and disabled while isArchiving; the user
\* confirms or cancels
handleBulkArchive ==
    /\ ~isArchiving
    /\ selectedIds # {}
    /\ Len(requests) < MaxRequests
    /\ \E confirmed \in BOOLEAN :
          IF confirmed
          THEN /\ isArchiving' = TRUE
               /\ pending' = Some(selectedIds)
          ELSE UNCHANGED <<isArchiving, pending>>
    /\ UNCHANGED <<selectedIds, alert, opVars, tableVars, statusVars, csvContent, formVars,
                   dbClients, dbProjects, clients, error>>

\* the handler whose finally block is left out
handleBulkArchiveSettled_noFinally ==
    /\ pending # Null
    /\ pending' = Null
    /\ IF ~configured
       THEN /\ result' = thrown(NotConfiguredMessage)
            /\ alert' = Some([kind |-> "failed", message |-> NotConfiguredMessage])
            /\ UNCHANGED <<isArchiving, dbClients, requests, selectedIds, clients, error>>
       ELSE \E answer \in answers({}) :
               /\ requests' = Append(requests,
                     request("clients", "update", pending[1],
                             [archived_at |-> Some(nowStamp)], answer))
               /\ IF answer # NoError
                  THEN /\ result' = thrown(<<"Failed to archive clients: ">>
                                               \o answer.message)
                       /\ alert' = Some([kind |-> "failed", message |-> result'.error[1]])
                       /\ UNCHANGED <<isArchiving, dbClients, selectedIds, clients, error>>
                  ELSE /\ dbClients' = updatedRows(dbClients, pending[1],
                                                   [archived_at |-> Some(nowStamp)])
                       /\ result' = resolved
                       /\ selectedIds' = {}
                       /\ alert' = Some([kind |-> "archived",
                                         count |-> Cardinality(pending[1])])
                       /\ isArchiving' = FALSE
                       /\ \E fetched \in BOOLEAN :
                             IF fetched
                             THEN /\ clients' = clientsWithStats(dbClients', dbProjects)
                                  /\ error' = Null
                             ELSE /\ clients' = << >>
                                  /\ error' = Some("Failed to fetch clients")
    /\ UNCHANGED <<dbProjects, dbTasks, configured, pageOutcome, tableVars,
                   statusVars, csvContent, formVars>>

\* the rest of the handler, run when the promise of archiveClients settles:
\* archiveClients' request is answered; on success the selection is
\* emptied, the success is alerted and router.refresh() fetches the list
\* again; on a thrown error the failure is alerted; finally isArchiving is
\* reset
handleBulkArchiveSettled ==
    /\ pending # Null
    /\ pending' = Null
    /\ isArchiving' = FALSE
    /\ IF ~configured
       THEN /\ result' = thrown(NotConfiguredMessage)
            /\ alert' = Some([kind |-> "failed", message |-> NotConfiguredMessage])
            /\ UNCHANGED <<dbClients, requests, selectedIds, clients, error>>
       ELSE \E answer \in answers({}) :
               /\ requests' = Append(requests,
                     request("clients", "update", pending[1],
                             [archived_at |-> Some(nowStamp)], answer))
               /\ IF answer # NoError
                  THEN /\ result' = thrown(<<"Failed to archive clients: ">>
                                               \o answer.message)
                       /\ alert' = Some([kind |-> "failed", message |-> result'.error[1]])
                       /\ UNCHANGED <<dbClients, selectedIds, clients, error>>
                  ELSE /\ dbClients' = updatedRows(dbClients, pending[1],
                                                   [archived_at |-> Some(nowStamp)])
                       /\ result' = resolved
                       /\ selectedIds' = {}
                       /\ alert' = Some([kind |-> "archived",
                                         count |-> Cardinality(pending[1])])
                       /\ \E fetched \in BOOLEAN :
                             IF fetched
                             THEN /\ clients' = clientsWithStats(dbClients', dbProjects)
                                  /\ error' = Null
                             ELSE /\ clients' = << >>
                                  /\ error' = Some("Failed to fetch clients")
    /\ UNCHANGED <<dbProjects, dbTasks, configured, pageOutcome, tableVars,
                   statusVars, csvContent, formVars>>

\* the table over the list fetched from a store of three clients
InitArchive ==
    /\ dbClients = <<ClientRow(1), ClientRow(2), ClientRow(3)>>
    /\ dbProjects = << >>
    /\ dbTasks = << >>
    /\ configured = TRUE
    /\ clients = clientsWithStats(dbClients, dbProjects)
    /\ error = Null
    /\ TableInit
    /\ NoOperationYet

NextArchive ==
    \/ onStatusFilterChange
    \/ handleSelectAll
    \/ handleSelectClient
    \/ handleBulkArchive
    \/ handleBulkArchiveSettled
    \/ \E clientIds \in {{}} : archiveClients(clientIds)

SpecArchive == InitArchive /\ [][NextArchive]_vars

\* the promise the handler awaits settles: the store answers or the call fails
SpecArchiveFair == SpecArchive /\ WF_vars(handleBulkArchiveSettled)

(***************************************************************************)
(* ClientsTable: the status buttons of the rows                            *)
(***************************************************************************)
\* a status button's handler up to its await: the button of a rendered row
\* is enabled unless updatingStatus is the row's id; the user confirms or
\* cancels; updatingStatus is set and updateClientStatus is called
setStatusStarted(shown, status) ==
    /\ Len(requests) + Len(statusCalls) < MaxRequests
    /\ \E k \in 1..Len(paginatedClients) :
          /\ (paginatedClients[k].status = "active") = shown
          /\ updatingStatus # Some(paginatedClients[k].id)
          /\ \E confirmed \in BOOLEAN :
                IF confirmed
                THEN /\ updatingStatus' = Some(paginatedClients[k].id)
                     /\ statusCalls' = Append(statusCalls,
                           [id |-> paginatedClients[k].id, status |-> status])
                ELSE UNCHANGED <<updatingStatus, statusCalls>>

\* the button rendered for a row whose status is 'active'
handleSetToNonActive ==
    /\ setStatusStarted(TRUE, "non_active")
    /\ UNCHANGED <<selectVars, csvContent, formVars, opVars, tableVars,
                   dbClients, dbProjects, clients, error>>

\* the button rendered for any other row
handleSetToActive ==
    /\ setStatusStarted(FALSE, "active")
    /\ UNCHANGED <<selectVars, csvContent, formVars, opVars, tableVars,
                   dbClients, dbProjects, clients, error>>

\* the rest of either handler, run when the promise of one of the calls in
\* flight settles: on success router.refresh() fetches the list again,
\* otherwise the failure is alerted; finally updatingStatus is reset
handleSetStatusSettled ==
    /\ \E k \in 1..Len(statusCalls) :
          /\ updateClientStatusCall(statusCalls[k].id, statusCalls[k].status)
          /\ statusCalls' = [j \in 1..(Len(statusCalls) - 1) |->
                                IF j < k THEN statusCalls[j] ELSE statusCalls[j + 1]]
    /\ updatingStatus' = Null
    /\ IF result'.success
       THEN /\ \E fetched \in BOOLEAN :
                  IF fetched
                  THEN /\ clients' = clientsWithStats(dbClients', dbProjects)
                       /\ error' = Null
                  ELSE /\ clients' = << >>
                       /\ error' = Some("Failed to fetch clients")
            /\ UNCHANGED alert
       ELSE /\ alert' = Some([kind |-> "failed",
                              message |-> <<"Failed to update status: ">>
                                              \o result'.error[1]])
            /\ UNCHANGED <<clients, error>>
    /\ UNCHANGED <<dbProjects, dbTasks, configured, pageOutcome, tableVars,
                   selectedIds, isArchiving, pending, csvContent, formVars>>

NextStatus ==
    \/ onStatusFilterChange
    \/ handleSetToNonActive
    \/ handleSetToActive
    \/ handleSetStatusSettled

\* the table over the list fetched from a store of three clients
SpecStatus == InitArchive /\ [][NextStatus]_vars

(***************************************************************************)
(* ClientForm: what is typed and its validation on submit                  *)
(***************************************************************************)
MaxPhoneLen == 2

\* the characters typed into the phone field
PhoneChars == {"1", " ", "-", "+", "(", ")", "a"}

Strings(chars, n) == UNION {[1..k -> chars] : k \in 0..n}

Repeated(c, n) == [k \in 1..n |-> c]

\* the phones typed: every string of up to MaxPhoneLen of the characters,
\* two examples, and strings of 50 and 51 characters
PhoneInputs ==
    Strings(PhoneChars, MaxPhoneLen)
    \cup {<<"a", "b", "c">>,
          <<"+", "1", " ", "(", "5", "5", "5", ")", " ", "0", "1", "0", "-", "1">>,
          Repeated("1", 50), Repeated("1", 51),
          Repeated("1", 49) \o <<"a">>, Repeated("-", 50) \o <<"a">>}

\* the user fills in the form: a name, an email and a phone
ClientFormInput ==
    /\ \E phone \in PhoneInputs :
          form' = Some([name |-> <<"a">>, email |-> <<"a", "@", "b", ".", "a", "b">>,
                        phone |-> phone, website_url |-> Null,
                        status |-> "active", notes |-> Null])
    /\ submitting' = FALSE
    /\ UNCHANGED <<formErrors, dbClients, dbProjects, clients, error, tableVars,
                   selectVars, statusVars, csvContent, opVars>>

\* handleSubmit(onSubmit) of the form: zodResolver(clientSchema) validates
\* the values; its issues become the form's errors, and onSubmit runs only
\* when there are none
ClientFormHandleSubmit ==
    /\ form # Null
    /\ ~submitting
    /\ formErrors' = clientSchemaErrors(form[1])
    /\ submitting' = (formErrors' = {})
    /\ UNCHANGED <<form, dbClients, dbProjects, clients, error, tableVars,
                   selectVars, statusVars, csvContent, opVars>>

InitClientForm ==
    /\ dbClients = << >>
    /\ dbProjects = << >>
    /\ dbTasks = << >>
    /\ configured = TRUE
    /\ clients = << >>
    /\ error = Null
    /\ TableInit
    /\ NoOperationYet

NextClientForm == ClientFormInput \/ ClientFormHandleSubmit

SpecClientForm == InitClientForm /\ [][NextClientForm]_vars

(***************************************************************************)
(* The detail page and the edit page of a client: the reads                *)
(***************************************************************************)
\* what .single() makes of the rows a query matched: the row, or no data
\* and an error when there is not exactly one
single(matched) ==
    IF Len(matched) = 1
    THEN [data |-> Some(matched[1]), error |-> NoError]
    ELSE [data |-> Null, error |-> NoRowsError]

\* getClient without .is('archived_at', null)
getClient_anyRow(rows, id, answer) ==
    LET wanted(c) == c.id = id
        reply == IF answer # NoError
                 THEN [data |-> Null, error |-> answer]
                 ELSE single(SelectSeq(rows, wanted))
    IN  IF reply.error # NoError \/ reply.data = Null THEN Null ELSE reply.data

\* getClient(id) of both pages, the store answering the read with answer:
\* the client, or Null for `return null`
getClient(rows, id, answer) ==
    LET wanted(c) == c.id = id /\ c.archived_at = Null
        reply == IF answer # NoError
                 THEN [data |-> Null, error |-> answer]
                 ELSE single(SelectSeq(rows, wanted))
    IN  IF reply.error # NoError \/ reply.data = Null THEN Null ELSE reply.data

\* from('projects').select('*').eq('client_id', clientId)
\*   .is('archived_at', null).order('start_date', { ascending: false }):
\* descending, the rows without a start date first
selectClientProjects(rows, clientId) ==
    LET wanted(p) == p.client_id = clientId /\ p.archived_at = Null
        kept == SelectSeq(rows, wanted)
        n == Len(kept)
        key(p) == IF p.start_date = Null THEN 1000000 ELSE getTime(p.start_date[1])
        byStartDesc == [i \in 1..n, j \in 1..n |-> key(kept[j]) - key(kept[i])]
        order == sortPositions(n, byStartDesc)
    IN  [k \in 1..n |-> kept[order[k]]]

\* from('tasks').select('*').in('project_id', projectIds).is('archived_at', null)
selectActiveTasks(rows, projectIds) ==
    LET wanted(t) == t.project_id \in projectIds /\ t.archived_at = Null
    IN  SelectSeq(rows, wanted)

\* getProjectsWithTasks(clientId) of the detail page, the store answering
\* the two reads with projectsAnswer and tasksAnswer
getProjectsWithTasks(projectRows, taskRows, clientId, projectsAnswer, tasksAnswer) ==
    LET projects == selectClientProjects(projectRows, clientId)
        projectIds == {projects[k].id : k \in 1..Len(projects)}
        tasks == IF tasksAnswer # NoError THEN << >>
                 ELSE selectActiveTasks(taskRows, projectIds)
        tasksOf(p) == LET ofProject(t) == t.project_id = p.id
                      IN  SelectSeq(tasks, ofProject)
    IN  IF projectsAnswer # NoError THEN << >>
        ELSE [k \in 1..Len(projects) |->
                [tasks |-> tasksOf(projects[k])] @@ projects[k]]

\* the ids a page is requested for: the three clients and an id of no row
PageIds == {1, 2, 3, 4}

\* the two things a read can come back with
ReadAnswers == {NoError, StoreFailure}

\* what a page request comes to: a page rendered with its data, the
\* not-found page of notFound(), or the error page of an exception
rendered(page, id, clientRead, client, projects) ==
    [kind |-> "rendered", page |-> page, id |-> id, clientRead |-> clientRead,
     client |-> client, projects |-> projects]

notFound(page, id, clientRead) ==
    [kind |-> "notFound", page |-> page, id |-> id, clientRead |-> clientRead]

errorPage(page, id, message) ==
    [kind |-> "error", page |-> page, id |-> id, message |-> message]

\* what ClientDetailPage comes to with a store handle, over these client
\* rows and with these answers to its three reads
detailPage(clientRows, projectRows, id, clientRead, projectsRead, tasksRead) ==
    LET client == getClient(clientRows, id, clientRead)
        projectsWithTasks ==
            getProjectsWithTasks(projectRows, dbTasks, id, projectsRead, tasksRead)
    IN  IF client = Null
        THEN notFound("detail", id, clientRead)
        ELSE rendered("detail", id, clientRead, client[1], projectsWithTasks)

\* GET /clients/[id]
ClientDetailPage(id) ==
    /\ IF ~configured
       THEN pageOutcome' = errorPage("detail", id, NotConfiguredMessage)
       ELSE \E clientRead \in ReadAnswers, projectsRead \in ReadAnswers,
               tasksRead \in ReadAnswers :
               pageOutcome' = detailPage(dbClients, dbProjects, id, clientRead,
                                         projectsRead, tasksRead)
    /\ UNCHANGED <<dbClients, dbProjects, dbTasks, configured, requests, result,
                   clients, error, tableVars, selectVars, statusVars, csvContent, formVars>>

\* GET /clients/[id]/edit
EditClientPage(id) ==
    /\ IF ~configured
       THEN pageOutcome' = errorPage("edit", id, NotConfiguredMessage)
       ELSE \E clientRead \in ReadAnswers :
               LET client == getClient(dbClients, id, clientRead)
               IN  IF client = Null
                   THEN pageOutcome' = notFound("edit", id, clientRead)
                   ELSE pageOutcome' = rendered("edit", id, clientRead,
                                                client[1], << >>)
    /\ UNCHANGED <<dbClients, dbProjects, dbTasks, configured, requests, result,
                   clients, error, tableVars, selectVars, statusVars, csvContent, formVars>>

\* a store of three clients, each archived or not, three projects (the
\* third archived) and three tasks
InitPages ==
    /\ \E archived \in SUBSET {1, 2, 3} :
          dbClients = [k \in 1..3 |->
                         IF k \in archived
                         THEN [ClientRow(k) EXCEPT !.archived_at = Some(<<2024, 6, 1>>)]
                         ELSE ClientRow(k)]
    /\ dbProjects =
          <<[id |-> 1, name |-> <<"a">>]
               @@ ProjectRow(1, Some("USD"), Some(100), Null, Null, Null),
            [id |-> 2, name |-> <<"b">>]
               @@ ProjectRow(1, Some("EUR"), Some(1000), Some(<<2023, 6, 1>>),
                             Some(<<2025, 1, 1>>), Null),
            [id |-> 3, name |-> <<"c">>]
               @@ ProjectRow(2, Some("EUR"), Some(50), Some(<<2024, 1, 15>>),
                             Null, Some(<<2024, 6, 1>>))>>
    /\ dbTasks = <<TaskRow(1, 1, Null), TaskRow(2, 1, Some(<<2024, 6, 1>>)),
                   TaskRow(3, 3, Null)>>
    /\ configured \in BOOLEAN
    /\ clients = << >>
    /\ error = Null
    /\ TableInit
    /\ NoOperationYet

NextPages ==
    \/ \E id \in PageIds : ClientDetailPage(id)
    \/ \E id \in PageIds : EditClientPage(id)

SpecPages == InitPages /\ [][NextPages]_vars

(***************************************************************************)
(* ProjectForm (create mode, for client 1): input, validation, onSubmit    *)
(***************************************************************************)
\* what a date field holds: nothing yet, the empty string, or a date
FormDates == {Null, Some(<< >>), Some(<<2024, 4, 1>>), Some(<<2024, 5, 1>>)}

\* the user fills in the form
ProjectFormInput ==
    /\ ~submitting
    /\ \E start \in FormDates, end \in FormDates :
          form' = Some([name |-> <<"a">>, description |-> Null, budget |-> Some(100),
                        currency |-> "USD", status |-> "non_completed",
                        start_date |-> start, end_date |-> end])
    /\ UNCHANGED <<formErrors, submitting, dbClients, dbProjects, clients, error,
                   tableVars, selectVars, statusVars, csvContent, opVars>>

\* handleSubmit(onSubmit) of the form: zodResolver(projectSchema) validates
\* the values; onSubmit runs only when there are no issues
ProjectFormHandleSubmit ==
    /\ form # Null
    /\ ~submitting
    /\ formErrors' = projectSchemaErrors(form[1])
    /\ submitting' = (formErrors' = {})
    /\ UNCHANGED <<form, dbClients, dbProjects, clients, error, tableVars,
                   selectVars, statusVars, csvContent, opVars>>

\* onSubmit: createProject with the values and the client's id; on success
\* router.push to the client's detail page, which replaces the form; on
\* failure the form stays with the result's error
ProjectFormOnSubmit ==
    /\ submitting
    /\ createProjectCall([client_id |-> 1] @@ form[1])
    /\ submitting' = FALSE
    /\ IF result'.success
       THEN /\ form' = Null
            /\ pageOutcome' = [projectCreated |-> TRUE]
                                 @@ detailPage(dbClients, dbProjects', 1,
                                               NoError, NoError, NoError)
       ELSE UNCHANGED <<form, pageOutcome>>
    /\ UNCHANGED <<formErrors, dbClients, dbTasks, configured, clients, error,
                   tableVars, selectVars, statusVars, csvContent>>

InitProjectForm ==
    /\ dbClients = <<ClientRow(1)>>
    /\ dbProjects = << >>
    /\ dbTasks = << >>
    /\ configured = TRUE
    /\ clients = << >>
    /\ error = Null
    /\ TableInit
    /\ NoOperationYet

NextProjectForm ==
    \/ ProjectFormInput
    \/ ProjectFormHandleSubmit
    \/ ProjectFormOnSubmit

SpecProjectForm == InitProjectForm /\ [][NextProjectForm]_vars

(***************************************************************************)
(* The detail page: the status toggle                                      *)
(***************************************************************************)
\* the page a redirect to /clients/[id]?updated=1 comes to: the detail page
\* with the banner 'Client updated successfully.' when it renders
updatedPage(clientRows, id) ==
    IF ~configured
    THEN {errorPage("detail", id, NotConfiguredMessage)}
    ELSE {[updated |-> TRUE] @@ detailPage(clientRows, dbProjects, id, clientRead,
                                           projectsRead, tasksRead) :
             clientRead \in ReadAnswers, projectsRead \in ReadAnswers,
             tasksRead \in ReadAnswers}

\* the form action of the detail page's status button: the call of
\* updateClientStatus, then the redirect
setClientStatus(id, status) ==
    /\ updateClientStatusCall(id, status)
    /\ pageOutcome' \in updatedPage(dbClients', id)
    /\ UNCHANGED <<dbProjects, dbTasks, configured, clients, error, tableVars,
                   selectVars, statusVars, csvContent, formVars>>

\* the detail pages visited: that of client 1 and that of an id without a row
ToggleIds == {1, 4}

\* the detail page and its status button
NextToggle ==
    \/ \E id \in ToggleIds : ClientDetailPage(id)
    \/ \E id \in ToggleIds, status \in {"active", "non_active"} :
          setClientStatus(id, status)

SpecToggle == InitPages /\ [][NextToggle]_vars

(***************************************************************************)
(* Every operation on a deployment without NEXT_PUBLIC_SUPABASE_URL or     *)
(* NEXT_PUBLIC_SUPABASE_ANON_KEY                                           *)
(***************************************************************************)
InitUnconfigured ==
    /\ InitPages
    /\ ~configured

NextUnconfigured ==
    \/ Home
    \/ \E data \in ClientInputs : createClient(data)
    \/ \E clientId \in TargetClientIds, data \in ClientInputs :
          updateClient(clientId, data)
    \/ \E data \in ProjectInputs : createProject(data)
    \/ \E projectId \in TargetProjectIds, data \in ProjectInputs :
          updateProject(projectId, data)
    \/ \E clientId \in TargetClientIds, status \in {"active", "non_active"} :
          updateClientStatus(clientId, status)
    \/ \E clientId \in TargetClientIds : archiveClient(clientId)
    \/ \E clientIds \in IdSets : archiveClients(clientIds)
    \/ \E id \in PageIds : ClientDetailPage(id)
    \/ \E id \in PageIds : EditClientPage(id)
    \/ \E id \in PageIds, status \in {"active", "non_active"} :
          setClientStatus(id, status)

SpecUnconfigured == InitUnconfigured /\ [][NextUnconfigured]_vars

(***************************************************************************)
(* Properties of the aggregation (SpecAgg).  They are stated over the rows *)
(* of the store and the list Home holds, without the operators above.      *)
(***************************************************************************)
\* the positions, in store order, of the non-archived projects of client id
ProjectsOf(id) ==
    {k \in 1..Len(dbProjects) :
        dbProjects[k].client_id = id /\ dbProjects[k].archived_at = Null}

\* the project at position k has a currency and a budget; a budget of 0
\* counts as none (C3)
HasCurrencyAndBudget(k) ==
    /\ dbProjects[k].currency # Null
    /\ dbProjects[k].budget # Null
    /\ dbProjects[k].budget[1] # 0

\* the positions that count for currency cur
Counted(id, cur) ==
    {k \in ProjectsOf(id) :
        HasCurrencyAndBudget(k) /\ dbProjects[k].currency[1] = cur}

Tally(id, cur) == Cardinality(Counted(id, cur))

FirstSeen(id, cur) ==
    CHOOSE k \in Counted(id, cur) : \A j \in Counted(id, cur) : k <= j

TalliedCurrencies(id) ==
    {cur \in Currencies : Counted(id, cur) # {}}

FetchedIndices == 1..Len(clients)

\* C1: the primary currency of every client has the highest tally among
\* the client's projects with a currency and a budget, and among the
\* currencies with that tally it is the one met first in input order.
C1_PrimaryIsFirstMostCommon ==
    \A i \in FetchedIndices :
        LET id == clients[i].id
            primary == clients[i].primary_currency
        IN  TalliedCurrencies(id) # {} =>
                /\ primary \in TalliedCurrencies(id)
                /\ \A cur \in TalliedCurrencies(id) :
                      /\ Tally(id, cur) <= Tally(id, primary)
                      /\ Tally(id, cur) = Tally(id, primary)
                            => FirstSeen(id, primary) <= FirstSeen(id, cur)

\* a tie between two currencies, won by the one met first although it is
\* not the default
C1_Witness ==
    \E i \in FetchedIndices :
        /\ Tally(clients[i].id, "EUR") = 1
        /\ Tally(clients[i].id, "USD") = 1
        /\ FirstSeen(clients[i].id, "EUR") < FirstSeen(clients[i].id, "USD")
        /\ clients[i].primary_currency = "EUR"

\* the budget of the project at position k, null read as 0
BudgetAt(k) == IF dbProjects[k].budget = Null THEN 0 ELSE dbProjects[k].budget[1]

\* the sum of the budgets at the positions in S
SumBudgets(S) ==
    LET upTo[k \in 0..Len(dbProjects)] ==
            IF k = 0 THEN 0
            ELSE upTo[k - 1] + (IF k \in S THEN BudgetAt(k) ELSE 0)
    IN  upTo[Len(dbProjects)]

InCurrency(id, cur) ==
    {k \in ProjectsOf(id) :
        dbProjects[k].currency # Null /\ dbProjects[k].currency[1] = cur}

\* C2: total_budget is the sum of the budgets of exactly the client's
\* projects in the primary currency; no budget in another currency is added.
C2_TotalIsSumInPrimaryCurrency ==
    \A i \in FetchedIndices :
        clients[i].total_budget =
            SumBudgets(InCurrency(clients[i].id, clients[i].primary_currency))

\* USD 100, USD 50 and EUR 1000 give USD and 150
C2_Witness ==
    /\ Len(dbProjects) = 3
    /\ \A k \in 1..3 : k \in ProjectsOf(1)
    /\ {<<dbProjects[k].currency, dbProjects[k].budget>> : k \in 1..3}
          = {<<Some("USD"), Some(100)>>, <<Some("USD"), Some(50)>>,
             <<Some("EUR"), Some(1000)>>}
    /\ \E i \in FetchedIndices :
          /\ clients[i].id = 1
          /\ clients[i].primary_currency = "USD"
          /\ clients[i].total_budget = 150

\* the count the aggregation keeps for cur while it determines the primary
\* currency of client id
CountInCode(id, cur) ==
    LET ofClient(p) == p.client_id = id /\ p.archived_at = Null
        entries == currencyCounts(SelectSeq(dbProjects, ofClient))
        hits == {e \in 1..Len(entries) : entries[e][1] = cur}
    IN  IF hits = {} THEN 0 ELSE entries[CHOOSE e \in hits : TRUE][2]

\* the claim as stated: every project with a non-null currency and a
\* non-null budget, 0 included, adds one to the tally of its currency
C3_Original ==
    \A i \in FetchedIndices : \A cur \in Currencies :
        CountInCode(clients[i].id, cur) =
            Cardinality({k \in InCurrency(clients[i].id, cur) :
                            dbProjects[k].budget # Null})

\* C3 (amended): every project whose currency is non-null and whose budget
\* is non-null and not 0 adds exactly one to the tally of its currency; a
\* project with a null or zero budget or a null currency adds nothing.
C3_TallyCountsNonZeroBudgets ==
    \A i \in FetchedIndices : \A cur \in Currencies :
        CountInCode(clients[i].id, cur) = Tally(clients[i].id, cur)

\* a fetched client with a counted project and a project of budget 0
C3_Witness ==
    \E i \in FetchedIndices : \E cur \in Currencies :
        /\ Tally(clients[i].id, cur) > 0
        /\ \E k \in ProjectsOf(clients[i].id) :
              dbProjects[k].currency # Null /\ dbProjects[k].budget = Some(0)

\* no currency appears more than once alongside a budget
NoCurrencyTwice(id) == \A cur \in Currencies : Tally(id, cur) <= 1

\* the claim as stated: then the primary currency is USD and the total 0
C4_Original ==
    \A i \in FetchedIndices :
        NoCurrencyTwice(clients[i].id) =>
            clients[i].primary_currency = "USD" /\ clients[i].total_budget = 0

\* C4 (amended): for any set of projects in which no currency appears
\* alongside a (non-zero) budget, the primary currency is USD and the total
\* budget is 0.
C4_NoBudgetedCurrencyGivesDefault ==
    \A i \in FetchedIndices :
        (\A cur \in Currencies : Tally(clients[i].id, cur) = 0) =>
            clients[i].primary_currency = "USD" /\ clients[i].total_budget = 0

\* a client with a project in EUR without a budget and a budget without a
\* currency: USD and 0
C4_Witness ==
    \E i \in FetchedIndices :
        /\ \E k \in ProjectsOf(clients[i].id) :
              dbProjects[k].currency = Some("EUR") /\ dbProjects[k].budget = Null
        /\ \E k \in ProjectsOf(clients[i].id) :
              dbProjects[k].currency = Null /\ dbProjects[k].budget # Null
        /\ \A cur \in Currencies : Tally(clients[i].id, cur) = 0
        /\ clients[i].primary_currency = "USD"
        /\ clients[i].total_budget = 0

\* C5: a client none of whose projects has both a currency and a budget
\* gets USD and 0; a client without projects also gets count 0 and no
\* dates; projects_count is the number of the client's non-archived projects.
C5_DefaultsAndCount ==
    \A i \in FetchedIndices :
        LET id == clients[i].id
        IN  /\ (\A k \in ProjectsOf(id) : ~HasCurrencyAndBudget(k)) =>
                  /\ clients[i].primary_currency = "USD"
                  /\ clients[i].total_budget = 0
            /\ ProjectsOf(id) = {} =>
                  /\ clients[i].projects_count = 0
                  /\ clients[i].earliest_start = Null
                  /\ clients[i].latest_end = Null
            /\ clients[i].projects_count = Cardinality(ProjectsOf(id))

\* a client without projects next to a client with two projects, while the
\* store also holds an archived project
C5_Witness ==
    /\ \E k \in 1..Len(dbProjects) : dbProjects[k].archived_at # Null
    /\ \E i \in FetchedIndices :
          ProjectsOf(clients[i].id) = {} /\ clients[i].projects_count = 0
    /\ \E i \in FetchedIndices : clients[i].projects_count = 2

StartDates(id) ==
    {dbProjects[k].start_date[1] :
        k \in {j \in ProjectsOf(id) : dbProjects[j].start_date # Null}}

EndDates(id) ==
    {dbProjects[k].end_date[1] :
        k \in {j \in ProjectsOf(id) : dbProjects[j].end_date # Null}}

\* C6: earliest_start is the earliest non-null start date of the client's
\* projects and latest_end the latest non-null end date; each is null
\* exactly when no project has that date.
C6_EarliestAndLatest ==
    \A i \in FetchedIndices :
        LET id == clients[i].id
            first == clients[i].earliest_start
            last == clients[i].latest_end
        IN  /\ first = Null <=> StartDates(id) = {}
            /\ first # Null =>
                  /\ first[1] \in StartDates(id)
                  /\ \A d \in StartDates(id) : getTime(first[1]) <= getTime(d)
            /\ last = Null <=> EndDates(id) = {}
            /\ last # Null =>
                  /\ last[1] \in EndDates(id)
                  /\ \A d \in EndDates(id) : getTime(d) <= getTime(last[1])

\* starts 2024-03-01, 2024-01-15 and none: the earliest is 2024-01-15; the
\* third project has an end date only, which is the latest end
C6_Witness ==
    \E i \in FetchedIndices :
        /\ Len(dbProjects) = 3
        /\ ProjectsOf(clients[i].id) = 1..3
        /\ dbProjects[1].start_date = Some(<<2024, 3, 1>>)
        /\ dbProjects[2].start_date = Some(<<2024, 1, 15>>)
        /\ dbProjects[3].start_date = Null
        /\ dbProjects[3].end_date = Some(<<2024, 1, 15>>)
        /\ EndDates(clients[i].id) = {<<2024, 1, 15>>}
        /\ clients[i].earliest_start = Some(<<2024, 1, 15>>)
        /\ clients[i].latest_end = Some(<<2024, 1, 15>>)

(***************************************************************************)
(* Properties of the table's derived collections (SpecTable)               *)
(***************************************************************************)
\* the same letter, whatever its case
SameLetter(x, y) == x = y \/ {x, y} = {"A", "a"} \/ {x, y} = {"B", "b"}

\* q occurs in s when case is ignored
ContainsIgnoringCase(s, q) ==
    \E offset \in 0..(Len(s) - Len(q)) :
        \A k \in 1..Len(q) : SameLetter(s[offset + k], q[k])

\* the record is one the filter is to retain
Retained(client) ==
    /\ statusFilter = "all" \/ client.status = statusFilter
    /\ \/ searchQuery = << >>
       \/ ContainsIgnoringCase(client.name, searchQuery)
       \/ ContainsIgnoringCase(client.email, searchQuery)
       \/ ContainsIgnoringCase(client.phone, searchQuery)

RetainedPositions == {i \in 1..Len(clients) : Retained(clients[i])}

\* the k-th smallest element of a set of positions
Kth(S, k) == CHOOSE i \in S : Cardinality({j \in S : j < i}) = k - 1

\* C7: the filtered collection holds exactly the input records whose status
\* passes the status filter and, for a non-empty search, whose name, email
\* or phone contains the search string ignoring case; in input order and
\* unaltered.
C7_FilteredIsRetainedInOrder ==
    /\ Len(filteredClients) = Cardinality(RetainedPositions)
    /\ \A k \in 1..Len(filteredClients) :
          filteredClients[k] = clients[Kth(RetainedPositions, k)]

\* a search in upper case under the status filter 'active' retains a client
\* named in lower case and drops an active client
C7_Witness ==
    /\ searchQuery = <<"B">>
    /\ statusFilter = "active"
    /\ \E k \in 1..Len(filteredClients) : filteredClients[k].name = <<"b">>
    /\ \E i \in 1..Len(clients) :
          clients[i].status = "active" /\ i \notin RetainedPositions
    /\ \E i \in 1..Len(clients) :
          clients[i].status = "non_active"
          /\ ContainsIgnoringCase(clients[i].name, searchQuery)

\* String.prototype.toUpperCase, per character
UpperChar(c) == CASE c = "a" -> "A" [] c = "b" -> "B" [] OTHER -> c

\* a precedes b when both are compared without regard to case
LessIgnoringCase(a, b) ==
    LET ua == [i \in 1..Len(a) |-> UpperChar(a[i])]
        ub == [i \in 1..Len(b) |-> UpperChar(b[i])]
    IN  \/ \E k \in 1..Min2(Len(ua), Len(ub)) :
              /\ \A j \in 1..(k - 1) : ua[j] = ub[j]
              /\ CharCode(ua[k]) < CharCode(ub[k])
        \/ /\ Len(ua) < Len(ub)
           /\ \A j \in 1..Len(ua) : ua[j] = ub[j]

DateColumns == {"earliest_start", "latest_end"}

DateOf(column, client) ==
    IF column = "earliest_start" THEN client.earliest_start ELSE client.latest_end

\* both records have a key under column (a missing date is no key)
HaveKeys(column, a, b) ==
    column \in DateColumns =>
        DateOf(column, a) # Null /\ DateOf(column, b) # Null

\* the key of a is below the key of b (for records that have keys)
KeyBelow(column, a, b) ==
    CASE column = "name"  -> LessIgnoringCase(a.name, b.name)
      [] column = "email" -> LessIgnoringCase(a.email, b.email)
      [] column = "phone" -> LessIgnoringCase(a.phone, b.phone)
      [] column = "status" -> a.status = "active" /\ b.status = "non_active"
      [] column = "projects_count" -> a.projects_count < b.projects_count
      [] column = "total_budget" -> a.total_budget < b.total_budget
      [] column = "created_at" -> IsoLess(a.created_at, b.created_at)
      [] column \in DateColumns ->
            IsoLess(DateOf(column, a)[1], DateOf(column, b)[1])

\* the keys of a and b are equal
KeysEqual(column, a, b) ==
    \/ /\ column \in DateColumns
       /\ DateOf(column, a) = Null
       /\ DateOf(column, b) = Null
    \/ /\ HaveKeys(column, a, b)
       /\ ~KeyBelow(column, a, b)
       /\ ~KeyBelow(column, b, a)

PositionIn(list, client) == CHOOSE i \in 1..Len(list) : list[i] = client

C9_NullDatesSortEarliest ==
    (sortColumn # Null /\ sortColumn[1] \in DateColumns) =>
        \A i, j \in 1..Len(sortedClients) :
            (/\ DateOf(sortColumn[1], sortedClients[i]) = Null
             /\ DateOf(sortColumn[1], sortedClients[j]) # Null)
                => IF sortDirection = "asc" THEN i < j ELSE j < i

\* C10: the visible slice is the elements of the sorted collection at the
\* 0-based indices (p-1)*s up to but not including p*s; a page beyond the
\* last gives the empty slice; the page count is ceil(n/s).
C10_PageIsSlice ==
    LET sorted == sortedClients
        page == paginatedClients
        pages == totalPages
        n == Len(sorted)
        lo == (currentPage - 1) * itemsPerPage
        hi == currentPage * itemsPerPage
        visible == {k \in 1..n : lo < k /\ k <= hi}
    IN  /\ Len(page) = Cardinality(visible)
        /\ \A k \in 1..Len(page) : page[k] = sorted[lo + k]
        /\ currentPage > pages => page = << >>
        /\ pages * itemsPerPage >= n
        /\ n > 0 => (pages - 1) * itemsPerPage < n
        /\ n = 0 => pages = 0

\* page 2 of one page: the list shrank while page 2 was shown
C10_Witness ==
    /\ currentPage = 2
    /\ totalPages = 1
    /\ Len(sortedClients) > 0
    /\ paginatedClients = << >>

\* C11: every step of the table that changes the search string, the status
\* filter, the sort column, the sort direction or the page size leaves the
\* current page at 1.
C11_ViewChangeResetsPage ==
    [][(\/ searchQuery' # searchQuery
        \/ statusFilter' # statusFilter
        \/ sortColumn' # sortColumn
        \/ sortDirection' # sortDirection
        \/ itemsPerPage' # itemsPerPage) => currentPage' = 1]_vars

\* page 1 of two pages under a search-free view whose filter, sort column,
\* sort direction and page size have all been changed
C11_Witness ==
    /\ currentPage = 1
    /\ totalPages = 2
    /\ statusFilter = "all"
    /\ sortColumn = Some("email")
    /\ sortDirection = "desc"
    /\ itemsPerPage = 10

(***************************************************************************)
(* Properties of the selection (SpecSelect)                                *)
(***************************************************************************)
\* C12 (as stated): a step of "select all" taken while some rendered id is
\* not selected leaves every rendered id selected and adds no id that is
\* not rendered; taken while every rendered id is selected, it leaves none
\* of them selected.
C12_SelectAllTogglesVisible ==
    [][handleSelectAll =>
          IF visibleIds \subseteq selectedIds
          THEN selectedIds' \cap visibleIds = {}
          ELSE /\ visibleIds \subseteq selectedIds'
               /\ (selectedIds' \ selectedIds) \subseteq visibleIds]_vars

(***************************************************************************)
(* Properties of the mutation operations (SpecOps)                         *)
(***************************************************************************)
\* C13 (as stated): a call of createClient, updateClient, createProject or
\* updateProject whose input violates a rule of the form's schema issues no
\* request to the store.  (updateClientStatus is only ever handed one of
\* the two statuses.)
C13_InvalidInputIssuesNoRequest ==
    [][/\ \A data \in ClientInputs :
            (/\ ~clientSchemaAccepts(data)
             /\ \/ createClient(data)
                \/ \E clientId \in TargetClientIds : updateClient(clientId, data))
               => requests' = requests
       /\ \A data \in ProjectInputs :
            (/\ ~projectSchemaAccepts(data)
             /\ \/ createProject(data)
                \/ \E projectId \in TargetProjectIds : updateProject(projectId, data))
               => requests' = requests]_vars

\* t is s without its leading and trailing blanks
IsTrimOf(t, s) ==
    /\ t # << >> => t[1] # " " /\ t[Len(t)] # " "
    /\ \E before, after \in 0..Len(s) :
          /\ before + Len(t) + after = Len(s)
          /\ \A i \in 1..Len(s) :
                IF i <= before \/ i > before + Len(t)
                THEN s[i] = " "
                ELSE s[i] = t[i - before]

\* t is s with every upper-case letter replaced by its lower-case letter
IsLowerCaseOf(t, s) ==
    /\ Len(t) = Len(s)
    /\ \A i \in 1..Len(s) : SameLetter(t[i], s[i]) /\ t[i] \notin {"A", "B"}

\* an optional text is absent, empty or made of blanks only
BlankText(value) ==
    value = Null \/ \A i \in 1..Len(value[1]) : value[1][i] = " "

\* an optional text is sent trimmed, and as null when it is blank
SentAsOptionalText(sent, value) ==
    IF BlankText(value) THEN sent = Null
    ELSE sent # Null /\ IsTrimOf(sent[1], value[1])

\* an optional date is absent or empty
BlankDate(value) == value = Null \/ value[1] = << >>

\* the request the step has added to the log
NewRequest == requests'[Len(requests')]

EmailTakenMessage ==
    <<"A client with this email already exists. Please use a different email.">>

PhoneTakenMessage ==
    <<"A client with this phone number already exists. Please use a different phone number.">>

\* the step is a call of createClient or updateClient that reached the store
ClientWriteStep ==
    /\ requests' # requests
    /\ \/ \E data \in ClientInputs : createClient(data)
       \/ \E clientId \in TargetClientIds, data \in ClientInputs :
             updateClient(clientId, data)

\* the row of dbClients' with this id carries the fields that were sent
WrittenAs(id, row) ==
    \E k \in 1..Len(dbClients') :
        /\ dbClients'[k].id = id
        /\ \A field \in DOMAIN row : dbClients'[k][field] = row[field]

\* C15: when the store rejects a client insert or update for the email's
\* uniqueness the call returns success=false with the email message, for
\* the phone's uniqueness with the phone message, and on any other failure
\* with the store's message; a failure writes no row; when the store takes
\* the request the call returns success=true with the id of the record,
\* which now carries the row.
C15_ClientWriteOutcome ==
    [][ClientWriteStep =>
          /\ result'.kind = "returned"
          /\ NewRequest.answer = EmailConflict =>
                result' = failed(EmailTakenMessage)
          /\ NewRequest.answer = PhoneConflict =>
                result' = failed(PhoneTakenMessage)
          /\ NewRequest.answer \in {StoreFailure, NoRowsError} =>
                result' = failed(NewRequest.answer.message)
          /\ NewRequest.answer # NoError =>
                ~result'.success /\ dbClients' = dbClients
          /\ NewRequest.answer = NoError =>
                /\ result'.success
                /\ result'.error = Null
                /\ result'.id # Null
                /\ WrittenAs(result'.id[1], NewRequest.row)
                /\ NewRequest.op = "update" => result'.id[1] \in NewRequest.ids
                /\ NewRequest.op = "insert" =>
                      \A k \in 1..Len(dbClients) : dbClients[k].id # result'.id[1]]_vars

\* an update rejected for the email and then an insert rejected for the
\* phone, which returned the phone message
C15_Witness ==
    /\ Len(requests) = 2
    /\ requests[1].op = "update"
    /\ requests[1].answer = EmailConflict
    /\ requests[2].op = "insert"
    /\ requests[2].answer = PhoneConflict
    /\ result = failed(PhoneTakenMessage)

\* the step is a call of one of the five operations that return a result
ResultStep ==
    \/ \E data \in ClientInputs : createClient(data)
    \/ \E clientId \in TargetClientIds, data \in ClientInputs :
          updateClient(clientId, data)
    \/ \E data \in ProjectInputs : createProject(data)
    \/ \E projectId \in TargetProjectIds, data \in ProjectInputs :
          updateProject(projectId, data)
    \/ \E clientId \in TargetClientIds, status \in {"active", "non_active"} :
          updateClientStatus(clientId, status)

\* the step is a call of archiveClient or of archiveClients with ids
ArchiveStep ==
    \/ \E clientId \in TargetClientIds : archiveClient(clientId)
    \/ \E clientIds \in IdSets \ {{}} : archiveClients(clientIds)

\* the call of this step met a failure: no configuration, or an error answer
StepFailed ==
    \/ ~configured
    \/ requests' # requests /\ NewRequest.answer # NoError

BatchArchived ==
    /\ NewRequest.answer = NoError
    /\ alert' = Some([kind |-> "archived", count |-> Cardinality(pending[1])])
    /\ selectedIds' = {}
    /\ \A k \in 1..Len(dbClients') :
          IF dbClients[k].id \in pending[1]
          THEN dbClients'[k].archived_at # Null
          ELSE dbClients'[k] = dbClients[k]

\* the archive of the batch awaited failed in this step
BatchFailed ==
    /\ NewRequest.answer # NoError
    /\ alert' # Null
    /\ alert'[1].kind = "failed"
    /\ includes(alert'[1].message, NewRequest.answer.message)
    /\ selectedIds' = selectedIds
    /\ dbClients' = dbClients

\* C17: a bulk archive is started for a non-empty selection only; when it
\* settles, exactly one update request has gone to the clients table, naming
\* all the ids of the batch; either the whole batch is archived, the
\* selection is emptied and the success is alerted with the batch's count,
\* or the batch's error is alerted, no row changes and the selection stays
\* as it is; archiveClients of no ids issues no request; the flag
\* isArchiving is reset when the archive settles, which it eventually does.
C17_BulkArchiveIsOneBatch ==
    /\ [][/\ (pending = Null /\ pending' # Null) =>
               /\ pending'[1] = selectedIds
               /\ pending'[1] # {}
               /\ isArchiving'
               /\ requests' = requests
          /\ (pending # Null /\ pending' = Null) =>
               /\ Len(requests') = Len(requests) + 1
               /\ NewRequest.table = "clients"
               /\ NewRequest.op = "update"
               /\ NewRequest.ids = pending[1]
               /\ DOMAIN NewRequest.row = {"archived_at"}
               /\ BatchArchived \/ BatchFailed
               /\ ~isArchiving'
          /\ (\E clientIds \in {{}} : archiveClients(clientIds)) =>
               requests' = requests
          /\ (isArchiving' # isArchiving) => (pending' = Null) # (pending = Null)
         ]_vars
    /\ (isArchiving ~> ~isArchiving)

\* a batch of two ids failed and left the selection, then was archived whole
C17_Witness ==
    /\ Len(requests) = 2
    /\ Cardinality(requests[1].ids) = 2
    /\ requests[1].answer = StoreFailure
    /\ requests[2].ids = requests[1].ids
    /\ requests[2].answer = NoError
    /\ alert = Some([kind |-> "archived", count |-> 2])
    /\ selectedIds = {}
    /\ ~isArchiving

\* the rows of a table that are not archived
LiveRows(rows) ==
    LET live(r) == r.archived_at = Null
    IN  SelectSeq(rows, live)

\* the ids of the rows of a table that are archived
ArchivedIds(rows) == {rows[k].id : k \in {j \in 1..Len(rows) : rows[j].archived_at # Null}}

\* C18: whatever the operations have made of the store, the list of
\* fetchClientsWithStats holds no archived client and is the list the store
\* would give without its archived clients and projects (so no archived
\* project is counted in a statistic); getClient of the detail and edit
\* pages returns no archived client; getProjectsWithTasks lists no archived
\* project and no archived task, and no task of an archived project.
C18_ArchivedRowsAreNeverRead ==
    LET list == clientsWithStats(dbClients, dbProjects)
    IN  /\ \A k \in 1..Len(list) :
              /\ list[k].archived_at = Null
              /\ list[k].id \notin ArchivedIds(dbClients)
              /\ list[k].projects_count =
                    Cardinality({j \in 1..Len(dbProjects) :
                                   /\ dbProjects[j].client_id = list[k].id
                                   /\ dbProjects[j].archived_at = Null})
        /\ list = clientsWithStats(LiveRows(dbClients), LiveRows(dbProjects))
        /\ \A id \in TargetClientIds :
              LET client == getClient(dbClients, id, NoError)
                  listed == getProjectsWithTasks(dbProjects, dbTasks, id, NoError, NoError)
              IN  /\ id \in ArchivedIds(dbClients) => client = Null
                  /\ client # Null => client[1].id = id /\ client[1].archived_at = Null
                  /\ \A k \in 1..Len(listed) :
                        /\ listed[k].id \notin ArchivedIds(dbProjects)
                        /\ \A j \in 1..Len(listed[k].tasks) :
                              /\ listed[k].tasks[j].id \notin ArchivedIds(dbTasks)
                              /\ listed[k].tasks[j].project_id = listed[k].id

\* client 1 was archived by an operation and a third client was created:
\* client 1 is read no more, client 3 is, and the store still holds archived
\* projects and tasks
C18_Witness ==
    /\ Len(dbClients) = 3
    /\ ArchivedIds(dbClients) = {1, 2}
    /\ ArchivedIds(dbProjects) # {}
    /\ ArchivedIds(dbTasks) # {}
    /\ getClient(dbClients, 1, NoError) = Null
    /\ getClient(dbClients, 3, NoError) # Null
    /\ Len(clientsWithStats(dbClients, dbProjects)) = 1
    /\ Len(getProjectsWithTasks(dbProjects, dbTasks, 1, NoError, NoError)) = 1

\* every row of the table is still there after the step, under its id and
\* at its place, and an archived row is still archived
RowsKept(rows, rowsAfter) ==
    /\ Len(rowsAfter) >= Len(rows)
    /\ \A k \in 1..Len(rows) :
          /\ rowsAfter[k].id = rows[k].id
          /\ rows[k].archived_at # Null => rowsAfter[k].archived_at # Null

\* C19: no step of an operation removes a row of clients, projects or
\* tasks, and none makes an archived row a live one again; a step of
\* archiveClient or archiveClients changes nothing but archived_at of the
\* clients it names, which it sets to the time of the call.
C19_RowsAreNeverRemovedNorRestored ==
    [][/\ RowsKept(dbClients, dbClients')
       /\ RowsKept(dbProjects, dbProjects')
       /\ RowsKept(dbTasks, dbTasks')
       /\ ArchiveStep =>
            /\ dbProjects' = dbProjects
            /\ dbTasks' = dbTasks
            /\ Len(dbClients') = Len(dbClients)
            /\ \A k \in 1..Len(dbClients) :
                  IF requests' # requests /\ NewRequest.answer = NoError
                     /\ dbClients[k].id \in NewRequest.ids
                  THEN dbClients'[k] =
                          [dbClients[k] EXCEPT !.archived_at = Some(nowStamp)]
                  ELSE dbClients'[k] = dbClients[k]]_vars

\* client 1 was archived and then updated: it is still there and archived
C19_Witness ==
    /\ Len(requests) = 2
    /\ requests[1].ids = {1}
    /\ "archived_at" \in DOMAIN requests[1].row
    /\ requests[1].answer = NoError
    /\ requests[2].table = "clients"
    /\ requests[2].ids = {1}
    /\ "name" \in DOMAIN requests[2].row
    /\ requests[2].answer = NoError
    /\ dbClients[1].id = 1
    /\ dbClients[1].archived_at = Some(nowStamp)

\* the store holds a client under this id that is not archived
HasLiveClient(id) ==
    \E k \in 1..Len(dbClients) :
        dbClients[k].id = id /\ dbClients[k].archived_at = Null

\* C20: a detail or edit page requested for an id with no live client comes
\* to the not-found page when the store answered the read, and to the
\* error page, not the not-found page, when the read of the client failed
\* or the store is not configured.
C20_NotFoundIsNotAnError ==
    LET readFailed == ~configured \/ pageOutcome.clientRead # NoError
    IN  pageOutcome.kind # "none" =>
            IF readFailed
            THEN pageOutcome.kind = "error"
            ELSE /\ pageOutcome.kind # "error"
                 /\ ~HasLiveClient(pageOutcome.id) => pageOutcome.kind = "notFound"

\* C21: a failed read is never presented as a successful result: a detail
\* page that was rendered lists the projects and tasks the store holds for
\* its client (the list its reads give when the store answers them), and
\* not an empty list in place of a read that failed.
C21_FailedReadIsNeverAnEmptyList ==
    (pageOutcome.kind = "rendered" /\ pageOutcome.page = "detail") =>
        pageOutcome.projects =
            getProjectsWithTasks(dbProjects, dbTasks, pageOutcome.id,
                                 NoError, NoError)

\* the step is a request of the detail page or of the edit page
PageStep ==
    \/ \E id \in PageIds : ClientDetailPage(id)
    \/ \E id \in PageIds : EditClientPage(id)

\* the step is a click on the detail page's status button
ToggleStep ==
    \E id \in PageIds, status \in {"active", "non_active"} :
        setClientStatus(id, status)

\* C22: without the store's configuration no step issues a request or
\* changes a row, and every operation that gets as far as the store handle
\* ends in an error: the five result-returning operations return
\* success=false with the configuration message, archiveClient and
\* archiveClients of some ids throw it, the list page shows an error with
\* an empty list, the detail and edit pages and the redirect of the status
\* toggle come to the error page.
C22_UnconfiguredIsAnError ==
    [][~configured =>
         /\ requests' = requests
         /\ dbClients' = dbClients /\ dbProjects' = dbProjects /\ dbTasks' = dbTasks
         /\ ResultStep => result' = failed(NotConfiguredMessage)
         /\ ArchiveStep => result' = thrown(NotConfiguredMessage)
         /\ Home => error' # Null /\ clients' = << >>
         /\ PageStep => pageOutcome'.kind = "error"
         /\ ToggleStep =>
               /\ result' = failed(NotConfiguredMessage)
               /\ pageOutcome'.kind = "error"]_vars

\* the list page, a page of a client and an archive have all failed
C22_Witness ==
    /\ ~configured
    /\ requests = << >>
    /\ error = Some(NullHandleMessage)
    /\ pageOutcome.kind = "error"
    /\ result = thrown(NotConfiguredMessage)

\* the issues raised for a field
ErrorsOf(field) == {e \in formErrors' : e[1] = field}

PhoneFormatMessage ==
    "Please enter a valid phone number (digits, spaces, hyphens, plus, parentheses allowed)"

\* C23: on submit the phone raises no issue exactly when it is non-empty,
\* at most 50 characters long and made of digits, blanks, hyphens, plus
\* signs and parentheses only; "abc" raises the format issue and
\* "+1 (555) 010-1" raises none; onSubmit runs only without issues.
C23_PhoneValidation ==
    [][ClientFormHandleSubmit =>
         LET phone == form[1].phone
             wellFormed ==
                 /\ Len(phone) >= 1
                 /\ Len(phone) <= 50
                 /\ \A i \in 1..Len(phone) :
                       phone[i] \in {"0", "1", "2", "3", "5",
                                     " ", "-", "+", "(", ")"}
         IN  /\ (ErrorsOf("phone") = {}) <=> wellFormed
             /\ phone = <<"a", "b", "c">> =>
                   ErrorsOf("phone") = {<<"phone", PhoneFormatMessage>>}
             /\ phone = <<"+", "1", " ", "(", "5", "5", "5", ")", " ",
                          "0", "1", "0", "-", "1">> => ErrorsOf("phone") = {}
             /\ submitting' => ErrorsOf("phone") = {}
             /\ ErrorsOf("phone") = {} => submitting'
       ]_vars

\* the example phone was submitted and passed
C23_Witness ==
    /\ form # Null
    /\ form[1].phone = <<"+", "1", " ", "(", "5", "5", "5", ")", " ",
                         "0", "1", "0", "-", "1">>
    /\ formErrors = {}
    /\ submitting

\* the calendar order of two dates
DateBefore(a, b) ==
    \/ a[1] < b[1]
    \/ a[1] = b[1] /\ a[2] < b[2]
    \/ a[1] = b[1] /\ a[2] = b[2] /\ a[3] < b[3]

\* a project row with both dates set has its end on or after its start
EndNotBeforeStart(row) ==
    (row.start_date # Null /\ row.end_date # Null) =>
        ~DateBefore(row.end_date[1], row.start_date[1])

CsvCell(raw) ==
    LET wrapped == Len(raw) >= 2 /\ raw[1] = Quote /\ raw[Len(raw)] = Quote
        inner == IF wrapped THEN SubSeq(raw, 2, Len(raw) - 1) ELSE raw
        quotes == {j \in 1..Len(inner) : inner[j] = Quote}
        kept(j) == inner[j] = Quote =>
                      Cardinality({q \in quotes : q <= j}) % 2 = 1
        positions == SelectSeq([j \in 1..Len(inner) |-> j], kept)
    IN  [text |-> [k \in 1..Len(positions) |-> inner[positions[k]]],
         wrapped |-> wrapped]

CsvRecords(content) ==
    LET n == Len(content)
        quotes == {j \in 1..n : content[j] = Quote}
        separates(i) ==
            \/ i = n + 1
            \/ /\ content[i] \in {Comma, LineBreak}
               /\ Cardinality({j \in quotes : j < i}) % 2 = 0
        ends == SelectSeq([i \in 1..(n + 1) |-> i], separates)
        endsRecord(k) == ends[k] = n + 1 \/ content[ends[k]] = LineBreak
        raw(k) == SubSeq(content, IF k = 1 THEN 1 ELSE ends[k - 1] + 1, ends[k] - 1)
        lasts == SelectSeq([k \in 1..Len(ends) |-> k], endsRecord)
    IN  [r \in 1..Len(lasts) |->
            LET first == IF r = 1 THEN 1 ELSE lasts[r - 1] + 1
            IN  [c \in 1..(lasts[r] - first + 1) |-> CsvCell(raw(first + c - 1))]]

\* C25: the text exported reads back as the record of the twelve column
\* names followed by one record per client of the sorted list, in its
\* order, of twelve cells each; every cell of a client is wrapped in
\* quotes and, with its doubled quotes undone, is the value exported for
\* the field (the empty text for a missing website, note or date).
C25_CsvReadsBack ==
    [][(csvContent' # csvContent /\ handleExportCSV) =>
         LET list == sortedClients
             records == CsvRecords(csvContent'[1])
         IN  /\ Len(records) = Len(list) + 1
             /\ Len(records[1]) = 12
             /\ \A c \in 1..12 :
                   /\ records[1][c].text = HeaderCells[c]
                   /\ ~records[1][c].wrapped
             /\ \A k \in 1..Len(list) :
                   LET client == list[k]
                       record == records[k + 1]
                   IN  /\ Len(record) = 12
                       /\ \A c \in 1..12 :
                             /\ record[c].wrapped
                             /\ record[c].text = csvRow(client)[c]
                       /\ record[1].text = client.name
                       /\ record[3].text = client.email
                       /\ record[4].text = client.phone
                       /\ record[5].text = textOrEmpty(client.website_url)
                       /\ record[12].text = textOrEmpty(client.notes)]_vars

\* two clients were exported, the second with quotes in its notes: its
\* last cell is the note with each quote doubled, in quotes
C25_Witness ==
    /\ csvContent # Null
    /\ Len(sortedClients) = 2
    /\ sortedClients[2].notes = Some(<<"a", Quote, "b">>)
    /\ Len(CsvRecords(csvContent[1])) = 3
    /\ SubSeq(csvContent[1], Len(csvContent[1]) - 5, Len(csvContent[1]))
          = <<Quote, "a", Quote, Quote, "b", Quote>>

\* C26: the page shown is a page the list has: currentPage is at least 1
\* and at most the number of pages (1 for an empty list).
C26_CurrentPageInRange ==
    /\ 1 <= currentPage
    /\ currentPage <= (IF totalPages > 1 THEN totalPages ELSE 1)

\* C27: whenever the header checkbox shows "all selected", every id on the
\* visible page is in the selected set.
C27_AllSelectedCoversThePage == allSelected => visibleIds \subseteq selectedIds

\* C28: while a status update for a client started from the table is in
\* flight, the status button of that client is disabled (updatingStatus is
\* its id), so that no two updates for one client are in flight together.
C28_ButtonDisabledWhileInFlight ==
    /\ \A k \in 1..Len(statusCalls) : updatingStatus = Some(statusCalls[k].id)
    /\ \A j, k \in 1..Len(statusCalls) :
          statusCalls[j].id = statusCalls[k].id => j = k

\* C29: a click on the detail page's status button comes to the page with
\* the banner 'Client updated successfully.' only if the call of
\* updateClientStatus it made returned success.
C29_BannerOnlyAfterSuccess ==
    [][(/\ ToggleStep
        /\ pageOutcome'.kind = "rendered"
        /\ "updated" \in DOMAIN pageOutcome')
       => result'.success]_vars

\* C30: updateClientStatus(id, s) changes nothing but the status of the
\* client with that id, and returns success only if afterwards a client
\* with that id exists whose status is s.
C30_StatusUpdateEffect ==
    [][\A clientId \in TargetClientIds, status \in {"active", "non_active"} :
          updateClientStatus(clientId, status) =>
             /\ dbProjects' = dbProjects /\ dbTasks' = dbTasks
             /\ Len(dbClients') = Len(dbClients)
             /\ \A k \in 1..Len(dbClients) :
                   /\ dbClients'[k] = [dbClients[k] EXCEPT !.status = dbClients'[k].status]
                   /\ dbClients[k].id # clientId => dbClients'[k] = dbClients[k]
             /\ result'.success =>
                   \E k \in 1..Len(dbClients') :
                      dbClients'[k].id = clientId /\ dbClients'[k].status = status]_vars

=============================================================================
